---- MODULE Spec2Model ----
(***************************************************************************)
(* The Zillopoly game ledger (contract Zillopoly) together with the HOBO   *)
(* ERC-20 token it holds in custody.  Every external call is one atomic    *)
(* transaction: it either commits all of its writes or reverts and leaves  *)
(* the storage untouched.  Token amounts are counted in whole HOBO, i.e.   *)
(* the common factor 10**18 (the token's decimals) is divided out.         *)
(***************************************************************************)
EXTENDS Integers, Sequences, FiniteSets, TLC

(* ------------------------------ bounds -------------------------------- *)
MaxBatches == 2

(* ------------------------- program constants -------------------------- *)
GAME_COST == 1000
BATCH_SIZE == 10
(* BATCH_COST as the price of a single game. *)
BATCH_COST_oneGame == GAME_COST

BATCH_COST == GAME_COST * BATCH_SIZE

NotStarted == 0
Initialized == 1
GuessSubmitted == 2
Settled == 3

(* ------------------------- accounts and inputs ------------------------ *)
Owner == "owner"
Ledger == "zillopoly"
ZeroAddress == "0x0"
Callers == {Owner, "alice", "bob"}
Accounts == Callers \cup {Ledger}

GameIds == 1..(MaxBatches * BATCH_SIZE)
ListingArgs == {0, 7}
DisplayedArgs == {0, 500000}
ActualArgs == {0, 400000, 500000, 600000}
WithdrawArgs == {BATCH_COST}

(* Accounts that ran the approval step of the start script                 *)
(* (hobo.approve(ZILLOPOLY_ADDRESS, MaxUint256)): an unlimited allowance,  *)
(* which transferFrom never decreases.                                     *)
Approved == {Owner, "alice"}

(* debited and credited are the token's transfer history as far as the     *)
(* games are concerned: the sum of the amounts startGame has pulled from   *)
(* players, and per player the sum of the amounts settleBet has paid out.  *)
(* batches is the chain's log of BatchGamesCreated events and            *)
(* gameEvents[g] the log of the events emitted for game g.  cre, api,      *)
(* hobo, install and dapp are the state of the programs next to the        *)
(* ledger: the CRE workflow, the listing API, the HOBO token's supply, the *)
(* CRE install script and the web client's transaction helpers.            *)
VARIABLES nextGameId, playerListings, gameById, allGames,
          balances, debited, credited, blockTime, lastCall,
          batches, gameEvents, cre, api, hobo, install, dapp

ledgerVars == <<nextGameId, playerListings, gameById, allGames>>
tokenVars == <<balances, debited, credited>>
offChain == <<cre, api, hobo, install, dapp>>
chainVars == <<nextGameId, playerListings, gameById, allGames,
               balances, debited, credited, blockTime, lastCall, batches,
               gameEvents>>
vars == <<nextGameId, playerListings, gameById, allGames,
          balances, debited, credited, blockTime, lastCall,
          batches, gameEvents, cre, api, hobo, install, dapp>>

(* Game ids a caller passes: zero, one game of each batch, and the first   *)
(* id not yet assigned.                                                    *)
GameIdArgs == {0, 3, BATCH_SIZE + 3, nextGameId}

(* The zero value of struct Listing: what an unwritten mapping slot holds. *)
ZeroListing ==
    [gameId |-> 0, displayedPrice |-> 0, actualPrice |-> 0,
     higherOrLower |-> FALSE, listingId |-> 0, player |-> ZeroAddress,
     timestamp |-> 0, stage |-> NotStarted, won |-> FALSE, payout |-> 0]

(* ------------------------------ the token ----------------------------- *)
(* ERC20.transferFrom(from, Ledger, amount) with the ledger as spender:    *)
(* the allowance is spent first, then the balance is moved.                *)
transferFromError(from, amount) ==
    IF from \notin Approved THEN "ERC20InsufficientAllowance"
    ELSE IF balances[from] < amount THEN "ERC20InsufficientBalance"
    ELSE "ok"

(* ERC20.transfer(to, amount) sent by the ledger. *)
transferError(amount) ==
    IF balances[Ledger] < amount THEN "ERC20InsufficientBalance" ELSE "ok"

(* Move with the recipient never credited. *)
Move_noCredit(bal, from, to, amount) ==
    IF from = to THEN bal
    ELSE [bal EXCEPT ![from] = @ - amount]

Move(bal, from, to, amount) ==
    IF from = to THEN bal
    ELSE [bal EXCEPT ![from] = @ - amount, ![to] = @ + amount]

(* --------------------------- Ownable.onlyOwner ------------------------ *)
(* onlyOwner with the modifier left off. *)
onlyOwner_any(caller) == TRUE

onlyOwner(caller) == caller = Owner

(* ------------------------------ result -------------------------------- *)
(* What the most recent transaction reported to its sender: the function   *)
(* called, "ok" or the revert reason, and the returned id range.           *)
Call(op, err, ret) == [op |-> op, err |-> err, ret |-> ret]

NoRet == <<0, 0>>

Revert(op, err) ==
    /\ lastCall' = Call(op, err, NoRet)
    /\ UNCHANGED <<ledgerVars, tokenVars, gameEvents>>

(* ------------------------------ startGame ----------------------------- *)
(* newListing with the contract owner recorded as the player. *)
newListing_ownerPlayer(id, caller, ts) ==
    [gameId |-> id, displayedPrice |-> 0, actualPrice |-> 0,
     higherOrLower |-> FALSE, listingId |-> 0, player |-> Owner,
     timestamp |-> ts, stage |-> NotStarted, won |-> FALSE, payout |-> 0]

newListing(id, caller, ts) ==
    [gameId |-> id, displayedPrice |-> 0, actualPrice |-> 0,
     higherOrLower |-> FALSE, listingId |-> 0, player |-> caller,
     timestamp |-> ts, stage |-> NotStarted, won |-> FALSE, payout |-> 0]

(* createSlots with the loop stopping one slot early. *)
RECURSIVE createSlots_short(_, _, _, _)
createSlots_short(i, st, caller, ts) ==
    IF i < BATCH_SIZE - 1
    THEN LET l == newListing(st.nextGameId, caller, ts)
         IN  createSlots_short(i + 1,
                 [nextGameId |-> st.nextGameId + 1,
                  playerListings |->
                      [st.playerListings EXCEPT ![caller] = Append(@, l)],
                  gameById |-> [st.gameById EXCEPT ![st.nextGameId] = l],
                  allGames |-> Append(st.allGames, l)],
                 caller, ts)
    ELSE st

(* createSlots without the push onto the caller's list. *)
RECURSIVE createSlots_noPlayerPush(_, _, _, _)
createSlots_noPlayerPush(i, st, caller, ts) ==
    IF i < BATCH_SIZE
    THEN LET l == newListing(st.nextGameId, caller, ts)
         IN  createSlots_noPlayerPush(i + 1,
                 [nextGameId |-> st.nextGameId + 1,
                  playerListings |-> st.playerListings,
                  gameById |-> [st.gameById EXCEPT ![st.nextGameId] = l],
                  allGames |-> Append(st.allGames, l)],
                 caller, ts)
    ELSE st

(* createSlots without the increment of nextGameId. *)
RECURSIVE createSlots_noIncrement(_, _, _, _)
createSlots_noIncrement(i, st, caller, ts) ==
    IF i < BATCH_SIZE
    THEN LET l == newListing(st.nextGameId, caller, ts)
         IN  createSlots_noIncrement(i + 1,
                 [nextGameId |-> st.nextGameId,
                  playerListings |->
                      [st.playerListings EXCEPT ![caller] = Append(@, l)],
                  gameById |-> [st.gameById EXCEPT ![st.nextGameId] = l],
                  allGames |-> Append(st.allGames, l)],
                 caller, ts)
    ELSE st

(* The creation loop: i runs from 0 while i < BATCH_SIZE; st carries the   *)
(* storage the loop writes.                                                *)
RECURSIVE createSlots(_, _, _, _)
createSlots(i, st, caller, ts) ==
    IF i < BATCH_SIZE
    THEN LET l == newListing(st.nextGameId, caller, ts)
         IN  createSlots(i + 1,
                 [nextGameId |-> st.nextGameId + 1,
                  playerListings |->
                      [st.playerListings EXCEPT ![caller] = Append(@, l)],
                  gameById |-> [st.gameById EXCEPT ![st.nextGameId] = l],
                  allGames |-> Append(st.allGames, l)],
                 caller, ts)
    ELSE st

BatchGamesCreated(player, startGameId, endGameId, timestamp) ==
    [player |-> player, startGameId |-> startGameId,
     endGameId |-> endGameId, timestamp |-> timestamp]

(* block.timestamp is blockTime; every committed batch is followed by a    *)
(* later block.                                                            *)
startGame(caller) ==
    /\ nextGameId + BATCH_SIZE - 1 <= MaxBatches * BATCH_SIZE
    /\ UNCHANGED offChain
    /\ LET err == transferFromError(caller, BATCH_COST)
       IN  IF err # "ok"
           THEN Revert("startGame", err) /\ UNCHANGED <<blockTime, batches>>
           ELSE LET st == createSlots(0,
                              [nextGameId |-> nextGameId,
                               playerListings |-> playerListings,
                               gameById |-> gameById,
                               allGames |-> allGames], caller, blockTime)
                IN  /\ blockTime' = blockTime + 1
                    /\ balances' = Move(balances, caller, Ledger, BATCH_COST)
                    /\ debited' = debited + BATCH_COST
                    /\ credited' = credited
                    /\ nextGameId' = st.nextGameId
                    /\ playerListings' = st.playerListings
                    /\ gameById' = st.gameById
                    /\ allGames' = st.allGames
                    /\ batches' = Append(batches,
                           BatchGamesCreated(caller, nextGameId,
                                             st.nextGameId - 1, blockTime))
                    /\ gameEvents' = gameEvents
                    /\ lastCall' = Call("startGame", "ok",
                                        <<nextGameId, st.nextGameId - 1>>)

(* ------------------------ _updateListingInArrays ---------------------- *)
(* The scan overwriting the element at index i whatever its gameId. *)
updateFirst_anySlot(arr, i, gameId, updatedGame) ==
    IF i > Len(arr) THEN arr ELSE [arr EXCEPT ![i] = updatedGame]

(* Linear scan from index i: overwrite the first element whose gameId      *)
(* matches, then break.                                                    *)
RECURSIVE updateFirst(_, _, _, _)
updateFirst(arr, i, gameId, updatedGame) ==
    IF i > Len(arr) THEN arr
    ELSE IF arr[i].gameId = gameId THEN [arr EXCEPT ![i] = updatedGame]
    ELSE updateFirst(arr, i + 1, gameId, updatedGame)

(* updateListingInArrays without the scan of allGames. *)
updateListingInArrays_playerOnly(gameId, updatedGame) ==
    /\ playerListings' =
           [playerListings EXCEPT ![updatedGame.player] =
                updateFirst(@, 1, gameId, updatedGame)]
    /\ allGames' = allGames

updateListingInArrays(gameId, updatedGame) ==
    /\ playerListings' =
           [playerListings EXCEPT ![updatedGame.player] =
                updateFirst(@, 1, gameId, updatedGame)]
    /\ allGames' = updateFirst(allGames, 1, gameId, updatedGame)

validGameId(gameId) == gameId > 0 /\ gameId < nextGameId

(* ------------------------------- events ------------------------------- *)
(* The log keeps the event's name and its arguments; of GameInitialized    *)
(* it keeps the arguments taken from the call and the record, not the      *)
(* block timestamp, which no operation reads back.                         *)
GameInitialized(gameId, player, listingId, displayedPrice) ==
    [event |-> "GameInitialized", gameId |-> gameId, player |-> player,
     listingId |-> listingId, displayedPrice |-> displayedPrice]

GuessMade(gameId, player, higherOrLower) ==
    [event |-> "GuessMade", gameId |-> gameId, player |-> player,
     higherOrLower |-> higherOrLower]

(* BetSettled carrying the payout of a win whatever the outcome. *)
BetSettled_fixedPayout(gameId, player, displayedPrice, actualPrice, higherOrLower, won, payout) ==
    [event |-> "BetSettled", gameId |-> gameId, player |-> player,
     displayedPrice |-> displayedPrice, actualPrice |-> actualPrice,
     higherOrLower |-> higherOrLower, won |-> won, payout |-> GAME_COST * 2]

BetSettled(gameId, player, displayedPrice, actualPrice, higherOrLower, won, payout) ==
    [event |-> "BetSettled", gameId |-> gameId, player |-> player,
     displayedPrice |-> displayedPrice, actualPrice |-> actualPrice,
     higherOrLower |-> higherOrLower, won |-> won, payout |-> payout]

(* ---------------------------- initializeGame -------------------------- *)
(* initializeGameError without the stage requirement. *)
initializeGameError_noStage(caller, gameId, listingId, displayedPrice) ==
    IF ~onlyOwner(caller) THEN "OwnableUnauthorizedAccount"
    ELSE IF ~validGameId(gameId) THEN "Invalid game ID"
    ELSE IF listingId = 0 THEN "Invalid listing ID"
    ELSE IF ~(displayedPrice > 0) THEN "Displayed price must be > 0"
    ELSE "ok"

(* initializeGameError without the requirement on displayedPrice. *)
initializeGameError_noPrice(caller, gameId, listingId, displayedPrice) ==
    IF ~onlyOwner(caller) THEN "OwnableUnauthorizedAccount"
    ELSE IF ~validGameId(gameId) THEN "Invalid game ID"
    ELSE IF listingId = 0 THEN "Invalid listing ID"
    ELSE IF gameById[gameId].stage # NotStarted THEN "Game already initialized"
    ELSE "ok"

(* initializeGameError without the requirement on listingId. *)
initializeGameError_noListing(caller, gameId, listingId, displayedPrice) ==
    IF ~onlyOwner(caller) THEN "OwnableUnauthorizedAccount"
    ELSE IF ~validGameId(gameId) THEN "Invalid game ID"
    ELSE IF ~(displayedPrice > 0) THEN "Displayed price must be > 0"
    ELSE IF gameById[gameId].stage # NotStarted THEN "Game already initialized"
    ELSE "ok"

initializeGameError(caller, gameId, listingId, displayedPrice) ==
    IF ~onlyOwner(caller) THEN "OwnableUnauthorizedAccount"
    ELSE IF ~validGameId(gameId) THEN "Invalid game ID"
    ELSE IF listingId = 0 THEN "Invalid listing ID"
    ELSE IF ~(displayedPrice > 0) THEN "Displayed price must be > 0"
    ELSE IF gameById[gameId].stage # NotStarted THEN "Game already initialized"
    ELSE "ok"

initializeGame(caller, gameId, listingId, displayedPrice) ==
    /\ UNCHANGED <<blockTime, batches, offChain>>
    /\ LET err == initializeGameError(caller, gameId, listingId, displayedPrice)
       IN  IF err # "ok"
           THEN Revert("initializeGame", err)
           ELSE LET game == [gameById[gameId] EXCEPT
                                !.listingId = listingId,
                                !.displayedPrice = displayedPrice,
                                !.stage = Initialized]
                IN  /\ gameById' = [gameById EXCEPT ![gameId] = game]
                    /\ updateListingInArrays(gameId, game)
                    /\ gameEvents' = [gameEvents EXCEPT ![gameId] = Append(@,
                           GameInitialized(gameId, game.player, listingId,
                                           displayedPrice))]
                    /\ lastCall' = Call("initializeGame", "ok", NoRet)
                    /\ UNCHANGED <<nextGameId, tokenVars>>

(* ------------------------------- makeGuess ---------------------------- *)
(* makeGuessError without the stage requirement. *)
makeGuessError_noStage(caller, gameId) ==
    IF ~validGameId(gameId) THEN "Invalid game ID"
    ELSE IF gameById[gameId].player # caller THEN "Not your game"
    ELSE "ok"

(* makeGuessError with the stage requirement placed before the player's. *)
makeGuessError_stageFirst(caller, gameId) ==
    IF ~validGameId(gameId) THEN "Invalid game ID"
    ELSE IF gameById[gameId].stage # Initialized THEN "Game not in guess stage"
    ELSE IF gameById[gameId].player # caller THEN "Not your game"
    ELSE "ok"

(* makeGuessError with the guess open for change until settlement. *)
makeGuessError_untilSettled(caller, gameId) ==
    IF ~validGameId(gameId) THEN "Invalid game ID"
    ELSE IF gameById[gameId].player # caller THEN "Not your game"
    ELSE IF gameById[gameId].stage \notin {Initialized, GuessSubmitted}
         THEN "Game not in guess stage"
    ELSE "ok"

makeGuessError(caller, gameId) ==
    IF ~validGameId(gameId) THEN "Invalid game ID"
    ELSE IF gameById[gameId].player # caller THEN "Not your game"
    ELSE IF gameById[gameId].stage # Initialized THEN "Game not in guess stage"
    ELSE "ok"

makeGuess(caller, gameId, isHigher) ==
    /\ UNCHANGED <<blockTime, batches, offChain>>
    /\ LET err == makeGuessError(caller, gameId)
       IN  IF err # "ok"
           THEN Revert("makeGuess", err)
           ELSE LET game == [gameById[gameId] EXCEPT
                                !.higherOrLower = isHigher,
                                !.stage = GuessSubmitted]
                IN  /\ gameById' = [gameById EXCEPT ![gameId] = game]
                    /\ updateListingInArrays(gameId, game)
                    /\ gameEvents' = [gameEvents EXCEPT ![gameId] = Append(@,
                           GuessMade(gameId, caller, isHigher))]
                    /\ lastCall' = Call("makeGuess", "ok", NoRet)
                    /\ UNCHANGED <<nextGameId, tokenVars>>

(* ------------------------------- settleBet ---------------------------- *)
(* playerWon with the negation of the guess lost in the "lower" branch. *)
playerWon_lowerFlipped(higherOrLower, displayedPrice, actualPrice) ==
    IF higherOrLower /\ actualPrice > displayedPrice THEN TRUE
    ELSE IF higherOrLower /\ actualPrice < displayedPrice THEN TRUE
    ELSE IF actualPrice = displayedPrice THEN TRUE
    ELSE FALSE

(* playerWon without the tie branch. *)
playerWon_noTie(higherOrLower, displayedPrice, actualPrice) ==
    IF higherOrLower /\ actualPrice > displayedPrice THEN TRUE
    ELSE IF ~higherOrLower /\ actualPrice < displayedPrice THEN TRUE
    ELSE FALSE

playerWon(higherOrLower, displayedPrice, actualPrice) ==
    IF higherOrLower /\ actualPrice > displayedPrice THEN TRUE
    ELSE IF ~higherOrLower /\ actualPrice < displayedPrice THEN TRUE
    ELSE IF actualPrice = displayedPrice THEN TRUE
    ELSE FALSE

(* payoutOf with the payout assigned on both branches. *)
payoutOf_always(won) == GAME_COST * 2

(* payoutOf with the stake returned instead of doubled. *)
payoutOf_stakeOnly(won) == IF won THEN GAME_COST ELSE 0

payoutOf(won) == IF won THEN GAME_COST * 2 ELSE 0

(* settleBetError without the stage requirement. *)
settleBetError_noStage(caller, gameId, actualPrice) ==
    IF ~onlyOwner(caller) THEN "OwnableUnauthorizedAccount"
    ELSE IF ~validGameId(gameId) THEN "Invalid game ID"
    ELSE IF ~(actualPrice > 0) THEN "Actual price must be > 0"
    ELSE IF playerWon(gameById[gameId].higherOrLower,
                      gameById[gameId].displayedPrice, actualPrice)
            /\ transferError(payoutOf(TRUE)) # "ok"
         THEN transferError(payoutOf(TRUE))
    ELSE "ok"

(* settleBetError without the onlyOwner modifier. *)
settleBetError_noOwner(caller, gameId, actualPrice) ==
    IF ~validGameId(gameId) THEN "Invalid game ID"
    ELSE IF ~(actualPrice > 0) THEN "Actual price must be > 0"
    ELSE IF gameById[gameId].stage # GuessSubmitted
         THEN "Game not ready for settlement"
    ELSE IF playerWon(gameById[gameId].higherOrLower,
                      gameById[gameId].displayedPrice, actualPrice)
            /\ transferError(payoutOf(TRUE)) # "ok"
         THEN transferError(payoutOf(TRUE))
    ELSE "ok"

(* settleBetError with the result of the payout transfer ignored. *)
settleBetError_payoutUnchecked(caller, gameId, actualPrice) ==
    IF ~onlyOwner(caller) THEN "OwnableUnauthorizedAccount"
    ELSE IF ~validGameId(gameId) THEN "Invalid game ID"
    ELSE IF ~(actualPrice > 0) THEN "Actual price must be > 0"
    ELSE IF gameById[gameId].stage # GuessSubmitted
         THEN "Game not ready for settlement"
    ELSE "ok"

(* settleBetError without the requirement on actualPrice. *)
settleBetError_noPrice(caller, gameId, actualPrice) ==
    IF ~onlyOwner(caller) THEN "OwnableUnauthorizedAccount"
    ELSE IF ~validGameId(gameId) THEN "Invalid game ID"
    ELSE IF gameById[gameId].stage # GuessSubmitted
         THEN "Game not ready for settlement"
    ELSE IF playerWon(gameById[gameId].higherOrLower,
                      gameById[gameId].displayedPrice, actualPrice)
            /\ transferError(payoutOf(TRUE)) # "ok"
         THEN transferError(payoutOf(TRUE))
    ELSE "ok"

settleBetError(caller, gameId, actualPrice) ==
    IF ~onlyOwner(caller) THEN "OwnableUnauthorizedAccount"
    ELSE IF ~validGameId(gameId) THEN "Invalid game ID"
    ELSE IF ~(actualPrice > 0) THEN "Actual price must be > 0"
    ELSE IF gameById[gameId].stage # GuessSubmitted
         THEN "Game not ready for settlement"
    ELSE IF playerWon(gameById[gameId].higherOrLower,
                      gameById[gameId].displayedPrice, actualPrice)
            /\ transferError(payoutOf(TRUE)) # "ok"
         THEN transferError(payoutOf(TRUE))
    ELSE "ok"

settleBet(caller, gameId, actualPrice) ==
    /\ UNCHANGED <<blockTime, batches, offChain>>
    /\ LET err == settleBetError(caller, gameId, actualPrice)
       IN  IF err # "ok"
           THEN Revert("settleBet", err)
           ELSE LET old == gameById[gameId]
                    won == playerWon(old.higherOrLower, old.displayedPrice,
                                     actualPrice)
                    game == [old EXCEPT !.actualPrice = actualPrice,
                                        !.won = won,
                                        !.stage = Settled,
                                        !.payout = payoutOf(won)]
                IN  /\ gameById' = [gameById EXCEPT ![gameId] = game]
                    /\ updateListingInArrays(gameId, game)
                    /\ balances' = IF won
                                   THEN Move(balances, Ledger, game.player,
                                             game.payout)
                                   ELSE balances
                    /\ credited' = IF won
                                   THEN [credited EXCEPT
                                            ![game.player] = @ + game.payout]
                                   ELSE credited
                    /\ debited' = debited
                    /\ gameEvents' = [gameEvents EXCEPT ![gameId] = Append(@,
                           BetSettled(gameId, game.player, game.displayedPrice,
                                      actualPrice, game.higherOrLower, won,
                                      game.payout))]
                    /\ lastCall' = Call("settleBet", "ok", NoRet)
                    /\ UNCHANGED nextGameId

(* ------------------------------ withdrawFunds ------------------------- *)
(* The checks of withdrawFunds without onlyOwner. *)
withdrawFundsError_noOwner(caller, amount) ==
    IF ~(amount <= balances[Ledger]) THEN "Insufficient balance"
    ELSE transferError(amount)

withdrawFundsError(caller, amount) ==
    IF ~onlyOwner(caller) THEN "OwnableUnauthorizedAccount"
    ELSE IF ~(amount <= balances[Ledger]) THEN "Insufficient balance"
    ELSE transferError(amount)

withdrawFunds(caller, amount) ==
    /\ UNCHANGED <<blockTime, batches, offChain>>
    /\ LET err == withdrawFundsError(caller, amount)
       IN  IF err # "ok"
           THEN Revert("withdrawFunds", err)
           ELSE /\ balances' = Move(balances, Ledger, caller, amount)
                /\ UNCHANGED <<debited, credited>>
                /\ lastCall' = Call("withdrawFunds", "ok", NoRet)
                /\ UNCHANGED <<ledgerVars, gameEvents>>

(* -------------------------------- getGame ----------------------------- *)
(* A view: it returns gameById[gameId] to the caller or reverts, and       *)
(* writes nothing.                                                         *)
getGameError(gameId) ==
    IF ~validGameId(gameId) THEN "Invalid game ID" ELSE "ok"

getGame(gameId) ==
    /\ lastCall' = Call("getGame", getGameError(gameId), NoRet)
    /\ UNCHANGED <<ledgerVars, tokenVars, blockTime, batches, gameEvents, offChain>>

(* ------------------------------- queries ------------------------------ *)
getPlayerListings(player) == playerListings[player]

getTotalGames == Len(allGames)

(* The count the loop of getPlayerGamesByStage has reached after looking   *)
(* at the first i elements of listings.                                    *)
RECURSIVE countStage(_, _, _)
countStage(listings, stage, i) ==
    IF i = 0 THEN 0
    ELSE countStage(listings, stage, i - 1)
             + (IF listings[i].stage = stage THEN 1 ELSE 0)

(* getPlayerGamesByStage that counts over the list of all games. *)
getPlayerGamesByStage_allGames(player, stage) ==
    countStage(allGames, stage, Len(allGames))

getPlayerGamesByStage(player, stage) ==
    countStage(playerListings[player], stage, Len(playerListings[player]))

(* ----------------------------- the system ----------------------------- *)
(* After deployment: no game yet, the players hold the price of one batch  *)
(* each, the contract owner and the ledger hold no token (the owner gets   *)
(* tokens only through withdrawFunds).                                     *)
CreIdle == [cursor |-> 0, result |-> "none", sent |-> {}]
ApiIdle == [pc |-> "idle"]
HoboIdle == [pc |-> "idle"]
InstallIdle == [pc |-> "idle"]
DappIdle == [pc |-> "idle"]

Init ==
    /\ batches = <<>>
    /\ gameEvents = [g \in GameIds |-> <<>>]
    /\ cre = CreIdle
    /\ api = ApiIdle
    /\ hobo = HoboIdle
    /\ install = InstallIdle
    /\ dapp = DappIdle
    /\ nextGameId = 1
    /\ playerListings = [a \in Callers |-> <<>>]
    /\ gameById = [g \in GameIds |-> ZeroListing]
    /\ allGames = <<>>
    /\ balances = [a \in Accounts |->
                      IF a \in Callers \ {Owner} THEN BATCH_COST ELSE 0]
    /\ debited = 0
    /\ credited = [a \in Callers |-> 0]
    /\ blockTime = 1
    /\ lastCall = Call("constructor", "ok", NoRet)

StartGameStep ==
    \E caller \in Callers : startGame(caller)

InitializeGameStep ==
    \E caller \in Callers, gameId \in GameIdArgs, listingId \in ListingArgs,
       displayedPrice \in DisplayedArgs :
        initializeGame(caller, gameId, listingId, displayedPrice)

MakeGuessStep ==
    \E caller \in Callers, gameId \in GameIdArgs, isHigher \in BOOLEAN :
        makeGuess(caller, gameId, isHigher)

SettleBetStep ==
    \E caller \in Callers, gameId \in GameIdArgs, actualPrice \in ActualArgs :
        settleBet(caller, gameId, actualPrice)

WithdrawFundsStep ==
    \E caller \in Callers, amount \in WithdrawArgs :
        withdrawFunds(caller, amount)

GetGameStep ==
    \E gameId \in GameIdArgs : getGame(gameId)

Next ==
    \/ StartGameStep
    \/ InitializeGameStep
    \/ MakeGuessStep
    \/ SettleBetStep
    \/ WithdrawFundsStep
    \/ GetGameStep

Spec == Init /\ [][Next]_vars

(* ============================ CRE workflow ============================ *)
(* cre.cursor counts the chain logs of the ledger the log trigger has      *)
(* examined, cre.result is what the last handler returned, cre.sent the    *)
(* game ids for which the workflow has sent an initializeGame.             *)

(* The event signature the log trigger filters on (topics[0]). *)
TriggerTopic == "GamePlayed"

(* The event name of a log in batches. *)
LogTopic(log) == "BatchGamesCreated"

(* onGamePlayed decodes and logs the event and returns a summary of it;   *)
(* it sends no transaction.                                                *)
onGamePlayed(payload) == "GamePlayed"

(* onCronTrigger logs and returns a fixed string. *)
onCronTrigger == "cron"

(* The log trigger is handed the next log of the ledger and runs its       *)
(* handler on it when the topic matches the filter.                        *)
logTrigger ==
    /\ cre.cursor < Len(batches)
    /\ LET payload == batches[cre.cursor + 1]
       IN  cre' = [cre EXCEPT
                      !.cursor = @ + 1,
                      !.result = IF LogTopic(payload) = TriggerTopic
                                 THEN onGamePlayed(payload)
                                 ELSE @]
    /\ UNCHANGED <<chainVars, api, hobo, install, dapp>>

cronTrigger ==
    /\ cre' = [cre EXCEPT !.result = onCronTrigger]
    /\ UNCHANGED <<chainVars, api, hobo, install, dapp>>

(* initWorkflow: the two handlers the workflow registers. *)
initWorkflow == logTrigger \/ cronTrigger

NextCRE == Next \/ initWorkflow

SpecCRE ==
    Init /\ [][NextCRE]_vars /\ WF_vars(logTrigger) /\ WF_vars(cronTrigger)

(* ============================ listing API ============================= *)
(* Texts are sequences of characters.  A JavaScript number that may be NaN *)
(* is a record [nan, v]; an adjustment counts units of 1/AdjUnit, so 0.15  *)
(* is 15000.  An object is a record, a missing property a missing field.   *)
AdjUnit == 100000
Num(v) == [nan |-> FALSE, v |-> v]
NaN == [nan |-> TRUE, v |-> 0]

DigitChars == <<"0", "1", "2", "3", "4", "5", "6", "7", "8", "9">>
IsDigit(c) == \E d \in 1..10 : DigitChars[d] = c
DigitVal(c) == (CHOOSE d \in 1..10 : DigitChars[d] = c) - 1
IsSpace(c) == c \in {" ", "\n"}

(* Number.prototype.toString for a non-negative integer. *)
RECURSIVE toString(_)
toString(n) ==
    IF n < 10 THEN <<DigitChars[n + 1]>>
    ELSE Append(toString(n \div 10), DigitChars[(n % 10) + 1])

(* String.prototype.trim *)
RECURSIVE trim(_)
trim(t) ==
    IF t = <<>> THEN t
    ELSE IF IsSpace(Head(t)) THEN trim(Tail(t))
    ELSE IF IsSpace(t[Len(t)]) THEN trim(SubSeq(t, 1, Len(t) - 1))
    ELSE t

(* The value of the longest prefix of digits of t; acc is the value of the *)
(* digits read and seen tells whether one was read.                        *)
RECURSIVE parseDigits(_, _, _)
parseDigits(t, acc, seen) ==
    IF t # <<>> /\ IsDigit(Head(t))
    THEN parseDigits(Tail(t), 10 * acc + DigitVal(Head(t)), TRUE)
    ELSE IF seen THEN Num(acc) ELSE NaN

(* parseInt(string): an optional sign, then the digits up to the first     *)
(* other character; NaN when there is no digit.                            *)
parseInt(t) ==
    LET u == trim(t)
    IN  IF u # <<>> /\ Head(u) = "-"
        THEN LET m == parseDigits(Tail(u), 0, FALSE)
             IN  IF m.nan THEN NaN ELSE Num(0 - m.v)
        ELSE IF u # <<>> /\ Head(u) = "+" THEN parseDigits(Tail(u), 0, FALSE)
        ELSE parseDigits(u, 0, FALSE)

(* String.prototype.padStart(targetLength, "0") *)
padStart(t, targetLength) ==
    IF Len(t) >= targetLength THEN t
    ELSE [k \in 1..(targetLength - Len(t)) |-> "0"] \o t

(* Math.round of the fraction num / den, den > 0: the nearest integer,     *)
(* halves going up.                                                        *)
MathRound(num, den) == (2 * num + den) \div (2 * den)

(* (adjustment * 100).toFixed(2): the percentage with two decimals.        *)
toFixed2(adjustment) ==
    IF adjustment.nan THEN <<"N", "a", "N">>
    ELSE LET a == IF adjustment.v < 0 THEN 0 - adjustment.v ELSE adjustment.v
             h == MathRound(a, 10)
             sign == IF adjustment.v < 0 /\ h > 0 THEN <<"-">> ELSE <<>>
         IN  sign \o toString(h \div 100) \o <<".">>
                  \o padStart(toString(h % 100), 2)

(* getRandomPercentageAdjustment without the fallback: a failure of the    *)
(* random service is thrown on to the caller.                              *)
getRandomPercentageAdjustment_noFallback(mathjs, random) ==
    IF mathjs.kind = "throws" \/ ~mathjs.ok
    THEN [threw |-> "Math.js API failed"]
    ELSE LET n == parseInt(mathjs.text)
         IN  [value |-> IF n.nan THEN NaN ELSE Num(300 * n.v - 15000)]

(* mathjs is the answer of the random service and random the value of      *)
(* Math.random() in units of 1/10000.  With normalized = n / 100 the       *)
(* adjustment normalized * 0.30 - 0.15 is 300 * n - 15000 units, and the   *)
(* fallback random * 0.30 - 0.15 is 3 * random - 15000 units.              *)
getRandomPercentageAdjustment(mathjs, random) ==
    IF mathjs.kind = "throws" \/ ~mathjs.ok
    THEN [value |-> Num(3 * random - 15000)]
    ELSE LET n == parseInt(mathjs.text)
         IN  [value |-> IF n.nan THEN NaN ELSE Num(300 * n.v - 15000)]

(* Math.round(actualPrice * (1 + adjustment)) *)
displayedPriceOf(actualPrice, adjustment) ==
    IF adjustment.nan THEN NaN
    ELSE Num(MathRound(actualPrice * (AdjUnit + adjustment.v), AdjUnit))

(* The object fetchRandomListing builds from the listing it picked. *)
listingResult(randomCity, randomListing, adjustment) ==
    LET actualPrice == IF "price" \in DOMAIN randomListing /\ randomListing.price # 0
                       THEN randomListing.price ELSE 0
        displayedPrice == displayedPriceOf(actualPrice, adjustment)
    IN  IF "zpid" \notin DOMAIN randomListing
        THEN [success |-> FALSE,
              error |-> "Cannot read properties of undefined (reading 'toString')"]
        ELSE [success |-> TRUE,
              city |-> randomCity,
              listing |-> [zpid |-> randomListing.zpid,
                           address |-> randomListing.address,
                           price |-> actualPrice],
              contractData |->
                  [listingId |-> <<"0", "x">> \o padStart(toString(randomListing.zpid), 64),
                   displayedPrice |-> displayedPrice,
                   actualPrice |-> actualPrice],
              priceInfo |-> [actual |-> actualPrice,
                             displayed |-> displayedPrice,
                             adjustmentPercent |-> toFixed2(adjustment)]]

(* zillow is the answer of the Listing Source: the fetch throws, or it     *)
(* answers a status and, when ok, the data; pick is the index drawn with   *)
(* Math.random().  The result is the object the function returns.          *)
fetchRandomListing(randomCity, zillow, mathjs, random) ==
    IF zillow.kind = "throws" THEN [success |-> FALSE, error |-> "fetch failed"]
    ELSE IF ~zillow.ok
    THEN [success |-> FALSE,
          error |-> <<"RapidAPI responded with status: ", zillow.status>>]
    ELSE IF "props" \in DOMAIN zillow.data /\ Len(zillow.data.props) > 0
    THEN LET adjustment == getRandomPercentageAdjustment(mathjs, random)
         IN  IF "threw" \in DOMAIN adjustment
             THEN [success |-> FALSE, error |-> adjustment.threw]
             ELSE listingResult(randomCity, zillow.data.props[zillow.pick],
                                adjustment.value)
    ELSE [success |-> FALSE, error |-> "No listings found in the response"]

(* JSON.stringify writes NaN as null. *)
jsonNumber(x) == IF x.nan THEN [null |-> TRUE] ELSE [null |-> FALSE, v |-> x.v]

(* res.json(listing): the body as the client reads it. *)
jsonBody(listing) ==
    [listing EXCEPT !.contractData.displayedPrice = jsonNumber(@),
                    !.priceInfo.displayed = jsonNumber(@)]

(* The answer of GET /api/random-listing to one request. *)
randomListingResponse(listing) ==
    IF ~listing.success
    THEN [status |-> 500,
          body |-> [error |-> "Failed to fetch listing", details |-> listing.error]]
    ELSE [status |-> 200, body |-> jsonBody(listing)]

(* The inputs one request meets. *)
MAJOR_CITIES == <<"Los Angeles, CA", "Las Vegas, NV">>
ZpidArg == 2077829
AddressArg == "1 Main St"
PriceArgs == {0, 10, 2000}
ListingArgsApi ==
    {[zpid |-> ZpidArg, address |-> AddressArg, price |-> p] : p \in PriceArgs}
        \cup {[zpid |-> ZpidArg, address |-> AddressArg],
              [address |-> AddressArg, price |-> 2000]}
ZillowAnswers ==
    {[kind |-> "throws"],
     [kind |-> "answer", ok |-> FALSE, status |-> 429],
     [kind |-> "answer", ok |-> TRUE, status |-> 200, data |-> [message |-> "none"]],
     [kind |-> "answer", ok |-> TRUE, status |-> 200, data |-> [props |-> <<>>]]}
        \cup {[kind |-> "answer", ok |-> TRUE, status |-> 200, pick |-> 1,
               data |-> [props |-> <<l>>]] : l \in ListingArgsApi}
OtherTexts ==
    {<<>>, <<"a", "b", "c">>, <<"0">>, <<"1", "0", "0", "0">>, <<"-", "5">>,
     <<"4", "2", "\n">>, <<"E", "r", "r", "o", "r">>}
MathjsAnswers ==
    {[kind |-> "throws"], [kind |-> "answer", ok |-> FALSE, text |-> <<>>]}
        \cup {[kind |-> "answer", ok |-> TRUE, text |-> toString(n)] : n \in 1..100}
        \cup {[kind |-> "answer", ok |-> TRUE, text |-> t] : t \in OtherTexts}
RandomArgs == {0, 9999}

ApiRequests ==
    {[pc |-> "request", city |-> c, zillow |-> z, mathjs |-> m, random |-> r] :
        c \in {MAJOR_CITIES[k] : k \in 1..Len(MAJOR_CITIES)},
        z \in ZillowAnswers, m \in MathjsAnswers, r \in RandomArgs}

(* The Listing Source answered at least one listing, so an adjustment is   *)
(* asked for.                                                              *)
hasListings(zillow) ==
    /\ zillow.kind = "answer"
    /\ zillow.ok
    /\ "props" \in DOMAIN zillow.data
    /\ Len(zillow.data.props) > 0

(* app.get('/api/random-listing'): the handler from request to response;   *)
(* adjustment keeps what getRandomPercentageAdjustment returned.           *)
getRandomListing ==
    /\ api.pc = "request"
    /\ LET listing == fetchRandomListing(api.city, api.zillow, api.mathjs, api.random)
       IN  api' = [pc |-> "responded", city |-> api.city, zillow |-> api.zillow,
                   mathjs |-> api.mathjs, random |-> api.random,
                   adjustment |-> IF hasListings(api.zillow)
                                  THEN getRandomPercentageAdjustment(api.mathjs, api.random)
                                  ELSE [skipped |-> TRUE],
                   listing |-> listing,
                   response |-> randomListingResponse(listing)]
    /\ UNCHANGED <<chainVars, cre, hobo, install, dapp>>

(* The ledger as deployed, while no call reaches it. *)
LedgerIdle ==
    /\ nextGameId = 1
    /\ playerListings = [a \in Callers |-> <<>>]
    /\ gameById = [g \in GameIds |-> ZeroListing]
    /\ allGames = <<>>
    /\ balances = [a \in Accounts |->
                      IF a \in Callers \ {Owner} THEN BATCH_COST ELSE 0]
    /\ debited = 0
    /\ credited = [a \in Callers |-> 0]
    /\ blockTime = 1
    /\ lastCall = Call("constructor", "ok", NoRet)
    /\ batches = <<>>
    /\ gameEvents = [g \in GameIds |-> <<>>]

InitApi ==
    /\ LedgerIdle
    /\ cre = CreIdle
    /\ hobo = HoboIdle
    /\ install = InstallIdle
    /\ dapp = DappIdle
    /\ api \in ApiRequests

NextApi == getRandomListing

SpecApi == InitApi /\ [][NextApi]_vars

(* ============================= HOBO token ============================= *)
(* Amounts are whole HOBO.  hobo holds the deployed token: its owner, the  *)
(* total supply, the balance of every holder and the outcome of the most   *)
(* recent call; a construction that reverts leaves no token.               *)
MAX_SUPPLY == 100000000

Deployer == "deployer"
HoboCallers == {Deployer, "mallory"}
HoboHolders == {Deployer, "mallory", ZeroAddress}
InitialSupplyArgs == {0, 40000000, MAX_SUPPLY, MAX_SUPPLY + 1}
HoboAmountArgs == {0, 20000000, 60000000, MAX_SUPPLY + 1}

(* constructor(initialSupply), called by Deployer *)
HoboConstructor(initialSupply) ==
    IF initialSupply > MAX_SUPPLY
    THEN [pc |-> "reverted", initialSupply |-> initialSupply,
          err |-> "Initial supply exceeds max supply"]
    ELSE [pc |-> "deployed", initialSupply |-> initialSupply,
          owner |-> Deployer,
          totalSupply |-> initialSupply,
          balanceOf |-> [a \in HoboHolders \ {ZeroAddress} |->
                            IF a = Deployer THEN initialSupply ELSE 0],
          op |-> "constructor", err |-> "ok"]

HoboRevert(op, err) == hobo' = [hobo EXCEPT !.op = op, !.err = err]

(* The check of mint without the cap. *)
mintError_noCap(caller, to, amount) ==
    IF caller # hobo.owner THEN "OwnableUnauthorizedAccount"
    ELSE IF to = ZeroAddress THEN "ERC20InvalidReceiver"
    ELSE "ok"

(* The check of mint that any caller passes. *)
mintError_anyCaller(caller, to, amount) ==
    IF hobo.totalSupply + amount > MAX_SUPPLY
    THEN "Minting would exceed max supply"
    ELSE IF to = ZeroAddress THEN "ERC20InvalidReceiver"
    ELSE "ok"

(* The first check of mint(to, amount) that fails, in the order of the     *)
(* code: onlyOwner, the cap, then _mint's receiver check.                  *)
mintError(caller, to, amount) ==
    IF caller # hobo.owner THEN "OwnableUnauthorizedAccount"
    ELSE IF hobo.totalSupply + amount > MAX_SUPPLY
    THEN "Minting would exceed max supply"
    ELSE IF to = ZeroAddress THEN "ERC20InvalidReceiver"
    ELSE "ok"

mint(caller, to, amount) ==
    /\ hobo.pc = "deployed"
    /\ LET err == mintError(caller, to, amount)
       IN  IF err # "ok" THEN HoboRevert("mint", err)
           ELSE hobo' = [hobo EXCEPT !.totalSupply = @ + amount,
                                     !.balanceOf[to] = @ + amount,
                                     !.op = "mint", !.err = "ok"]
    /\ UNCHANGED <<chainVars, cre, api, install, dapp>>

(* The first check of burn(from, amount) that fails: onlyOwner, then       *)
(* _burn's sender and balance checks.                                      *)
burnError(caller, from, amount) ==
    IF caller # hobo.owner THEN "OwnableUnauthorizedAccount"
    ELSE IF from = ZeroAddress THEN "ERC20InvalidSender"
    ELSE IF hobo.balanceOf[from] < amount THEN "ERC20InsufficientBalance"
    ELSE "ok"

burn(caller, from, amount) ==
    /\ hobo.pc = "deployed"
    /\ LET err == burnError(caller, from, amount)
       IN  IF err # "ok" THEN HoboRevert("burn", err)
           ELSE hobo' = [hobo EXCEPT !.totalSupply = @ - amount,
                                     !.balanceOf[from] = @ - amount,
                                     !.op = "burn", !.err = "ok"]
    /\ UNCHANGED <<chainVars, cre, api, install, dapp>>

(* Ownable.transferOwnership(newOwner), inherited *)
transferOwnership(caller, newOwner) ==
    /\ hobo.pc = "deployed"
    /\ IF caller # hobo.owner
       THEN HoboRevert("transferOwnership", "OwnableUnauthorizedAccount")
       ELSE IF newOwner = ZeroAddress
       THEN HoboRevert("transferOwnership", "OwnableInvalidOwner")
       ELSE hobo' = [hobo EXCEPT !.owner = newOwner,
                                 !.op = "transferOwnership", !.err = "ok"]
    /\ UNCHANGED <<chainVars, cre, api, install, dapp>>

MintStep ==
    \E caller \in HoboCallers, to \in HoboHolders, amount \in HoboAmountArgs :
        mint(caller, to, amount)

BurnStep ==
    \E caller \in HoboCallers, from \in HoboHolders, amount \in HoboAmountArgs :
        burn(caller, from, amount)

TransferOwnershipStep ==
    \E caller \in HoboCallers, newOwner \in HoboHolders :
        transferOwnership(caller, newOwner)

InitHobo ==
    /\ LedgerIdle
    /\ cre = CreIdle
    /\ api = ApiIdle
    /\ install = InstallIdle
    /\ dapp = DappIdle
    /\ \E initialSupply \in InitialSupplyArgs : hobo = HoboConstructor(initialSupply)

NextHobo == MintStep \/ BurnStep \/ TransferOwnershipStep

SpecHobo == InitHobo /\ [][NextHobo]_vars

(* =========================== install script =========================== *)
(* install holds the script's variables i and RETRY_DELAY, its position,   *)
(* the attempts made, the sleeps taken and the exit status; status[k] is   *)
(* the exit status the pipeline `curl | sh` will have at attempt k and     *)
(* inPath whether `command -v cre` finds the command afterwards.           *)
MAX_RETRIES == 5
InitialRetryDelay == 10
PipelineStatus == {0, 1}

(* RETRY_DELAY kept as it is after a sleep. *)
nextRetryDelay_constant(delay) == delay

(* RETRY_DELAY=$((RETRY_DELAY * 2)) *)
nextRetryDelay(delay) == delay * 2

InstallStart(status, inPath) ==
    [pc |-> "attempt", i |-> 1, RETRY_DELAY |-> InitialRetryDelay,
     status |-> status, inPath |-> inPath,
     attempts |-> 0, slept |-> <<>>, verified |-> FALSE, exit |-> -1]

(* One pass of the loop body up to the sleep or the exit. *)
attemptInstall ==
    /\ install.pc = "attempt"
    /\ install' =
          IF install.status[install.i] = 0
          THEN [install EXCEPT !.attempts = @ + 1, !.pc = "verify"]
          ELSE IF install.i < MAX_RETRIES
          THEN [install EXCEPT !.attempts = @ + 1, !.pc = "sleep"]
          ELSE [install EXCEPT !.attempts = @ + 1, !.pc = "exited", !.exit = 1]
    /\ UNCHANGED <<chainVars, cre, api, hobo, dapp>>

(* sleep $RETRY_DELAY, the doubling, and the loop's next i *)
sleepAndRetry ==
    /\ install.pc = "sleep"
    /\ install' = [install EXCEPT !.slept = Append(@, install.RETRY_DELAY),
                                  !.RETRY_DELAY = nextRetryDelay(@),
                                  !.i = @ + 1,
                                  !.pc = "attempt"]
    /\ UNCHANGED <<chainVars, cre, api, hobo, dapp>>

(* command -v cre, then exit 0 on either branch *)
verifyInstall ==
    /\ install.pc = "verify"
    /\ install' = [install EXCEPT !.verified = install.inPath,
                                  !.pc = "exited", !.exit = 0]
    /\ UNCHANGED <<chainVars, cre, api, hobo, dapp>>

InitInstall ==
    /\ LedgerIdle
    /\ cre = CreIdle
    /\ api = ApiIdle
    /\ hobo = HoboIdle
    /\ dapp = DappIdle
    /\ \E status \in [1..MAX_RETRIES -> PipelineStatus], inPath \in BOOLEAN :
           install = InstallStart(status, inPath)

NextInstall == attemptInstall \/ sleepAndRetry \/ verifyInstall

(* The shell runs the script's commands one after the other, and each of   *)
(* curl, sh and sleep returns.                                             *)
SpecInstall == InitInstall /\ [][NextInstall]_vars /\ WF_vars(NextInstall)

(* ============================= web client ============================= *)
(* dapp holds one run of playGameSequential: its position, the variables   *)
(* receipt and attempts of waitForTransactionReceipt, the number of        *)
(* eth_getTransactionReceipt requests issued, whether the last request     *)
(* threw, and the transactions sent.                                       *)
maxAttempts == 30

NoReceipt == [found |-> FALSE]
ReceiptWith(status) == [found |-> TRUE, status |-> status]
ReceiptAnswers == {NoReceipt, ReceiptWith(1), ReceiptWith(0)}

DappStart ==
    [pc |-> "approve", receipt |-> NoReceipt, attempts |-> 0, requests |-> 0,
     swallowed |-> FALSE, approveTx |-> FALSE, playTx |-> FALSE]

(* eth_sendTransaction of approve: the wallet returns the hash, or the     *)
(* request throws and playGameSequential throws it on.                     *)
sendApprove ==
    /\ dapp.pc = "approve"
    /\ \E ok \in BOOLEAN :
           dapp' = IF ok THEN [dapp EXCEPT !.approveTx = TRUE, !.pc = "request"]
                   ELSE [dapp EXCEPT !.pc = "threw"]
    /\ UNCHANGED <<chainVars, cre, api, hobo, install>>

(* The loop condition of waitForTransactionReceipt with a bound that the   *)
(* count never reaches.                                                    *)
keepPolling_unbounded(receipt, attempts) ==
    ~receipt.found /\ attempts < maxAttempts + 1

(* while (!receipt && attempts < maxAttempts) *)
keepPolling(receipt, attempts) == ~receipt.found /\ attempts < maxAttempts

(* One request of the loop body: the answer is a receipt, null, or an      *)
(* error, which the catch swallows; with a receipt the loop breaks and     *)
(* the function returns it.                                                *)
requestReceipt ==
    /\ dapp.pc = "request"
    /\ \/ \E answer \in ReceiptAnswers :
             dapp' = [dapp EXCEPT !.receipt = answer,
                                  !.requests = @ + 1,
                                  !.swallowed = FALSE,
                                  !.pc = IF answer.found THEN "returned" ELSE "sleep"]
       \/ dapp' = [dapp EXCEPT !.requests = @ + 1,
                               !.swallowed = TRUE,
                               !.pc = "sleep"]
    /\ UNCHANGED <<chainVars, cre, api, hobo, install>>

(* The 2 s timer, attempts++ and the test of the loop condition; the       *)
(* function returns receipt when the loop ends.                            *)
sleepAndCount ==
    /\ dapp.pc = "sleep"
    /\ dapp' = [dapp EXCEPT !.attempts = @ + 1,
                            !.pc = IF keepPolling(dapp.receipt, dapp.attempts + 1)
                                   THEN "request" ELSE "returned"]
    /\ UNCHANGED <<chainVars, cre, api, hobo, install>>

waitForTransactionReceipt == requestReceipt \/ sleepAndCount

(* eth_sendTransaction of play, after the await of the wait returned; the  *)
(* value the wait returned is not looked at.                               *)
sendPlay ==
    /\ dapp.pc = "returned"
    /\ \E ok \in BOOLEAN :
           dapp' = IF ok THEN [dapp EXCEPT !.playTx = TRUE, !.pc = "done"]
                   ELSE [dapp EXCEPT !.pc = "threw"]
    /\ UNCHANGED <<chainVars, cre, api, hobo, install>>

playGameSequential == sendApprove \/ waitForTransactionReceipt \/ sendPlay

InitDapp ==
    /\ LedgerIdle
    /\ cre = CreIdle
    /\ api = ApiIdle
    /\ hobo = HoboIdle
    /\ install = InstallIdle
    /\ dapp = DappStart

NextDapp == playGameSequential

(* The event loop runs every pending continuation, and each request and    *)
(* timer settles.                                                          *)
SpecDapp == InitDapp /\ [][NextDapp]_vars /\ WF_vars(NextDapp)

(* ======================= properties of the ledger ===================== *)
(* Every action writes lastCall, so lastCall' tells which function a step  *)
(* called and whether it reverted.                                         *)
IsStartGame == lastCall'.op = "startGame"
IsInitializeGame == lastCall'.op = "initializeGame"
IsMakeGuess == lastCall'.op = "makeGuess"
IsSettleBet == lastCall'.op = "settleBet"

Failed == lastCall'.err # "ok"
GamesKept == UNCHANGED <<playerListings, gameById, allGames>>
StateKept == UNCHANGED <<nextGameId, playerListings, gameById, allGames,
                         balances>>

(* The ids some stored record already carries. *)
UsedIds ==
    {allGames[i].gameId : i \in 1..Len(allGames)}
        \cup {g \in GameIds : gameById[g] # ZeroListing}

FreshGame(l, id, caller) ==
    /\ l.gameId = id
    /\ l.stage = NotStarted
    /\ l.player = caller
    /\ l.displayedPrice = 0
    /\ l.actualPrice = 0
    /\ l.listingId = 0

TransferFailures == {"ERC20InsufficientAllowance", "ERC20InsufficientBalance"}

BatchCreated(caller) ==
    /\ ~Failed
    /\ balances'[caller] = balances[caller] - BATCH_COST
    /\ balances'[Ledger] = balances[Ledger] + BATCH_COST
    /\ \A a \in Accounts \ {caller, Ledger} : balances'[a] = balances[a]
    /\ nextGameId' = nextGameId + BATCH_SIZE
    /\ lastCall'.ret = <<nextGameId, nextGameId + 9>>
    /\ Len(allGames') = Len(allGames) + BATCH_SIZE
    /\ SubSeq(allGames', 1, Len(allGames)) = allGames
    /\ Len(playerListings'[caller]) = Len(playerListings[caller]) + BATCH_SIZE
    /\ \A p \in Callers \ {caller} : playerListings'[p] = playerListings[p]
    /\ \A k \in 1..BATCH_SIZE :
           LET id == nextGameId + k - 1
           IN  /\ id \notin UsedIds
               /\ FreshGame(gameById'[id], id, caller)
               /\ allGames'[Len(allGames) + k] = gameById'[id]
               /\ playerListings'[caller][Len(playerListings[caller]) + k]
                      = gameById'[id]
    /\ \A g \in GameIds :
           g \notin nextGameId..(nextGameId + 9) => gameById'[g] = gameById[g]

(* C1: a startGame call either debits the caller BATCH_COST and appends    *)
(* exactly BATCH_SIZE fresh games (stage NotStarted, owned by the caller,  *)
(* zero prices and listing) under contiguous ascending unused ids,         *)
(* returning (firstId, firstId + 9), or fails and leaves nextGameId, the   *)
(* three game stores and every balance as they were.                       *)
C1_BatchAllOrNothing ==
    [][IsStartGame =>
        \/ lastCall'.err \in TransferFailures /\ StateKept
        \/ \A caller \in Callers :
               startGame(caller) => BatchCreated(caller)]_vars

(* C1 witness: a second batch has been created, with ids 11..20. *)
C1_Witness ==
    /\ lastCall.op = "startGame"
    /\ lastCall.err = "ok"
    /\ lastCall.ret = <<BATCH_SIZE + 1, 2 * BATCH_SIZE>>

(* C2: in every step the stage of every game, in the ledger and in the     *)
(* flat list, stays or advances by exactly one position.                   *)
C2_StageAdvancesByOne ==
    [][\/ GamesKept
       \/ /\ \A g \in GameIds :
                 gameById'[g].stage \in
                     {gameById[g].stage, gameById[g].stage + 1}
          /\ \A i \in 1..Len(allGames) :
                 allGames'[i].stage \in
                     {allGames[i].stage, allGames[i].stage + 1}]_vars

(* C2 witness: a game has gone through all four stages. *)
C2_Witness == \E g \in GameIds : gameById[g].stage = Settled

(* C3 as stated: every call on an existing game that is not in the         *)
(* required pre-stage fails with the stage-conflict error and changes      *)
(* nothing.                                                                *)
C3_Original ==
    [][/\ IsInitializeGame =>
            \/ lastCall'.err = "Game already initialized" /\ StateKept
            \/ \A caller \in Callers, gameId \in GameIdArgs,
                  listingId \in ListingArgs, displayedPrice \in DisplayedArgs :
                   (validGameId(gameId) /\ gameById[gameId].stage # NotStarted)
                       => ~initializeGame(caller, gameId, listingId,
                                          displayedPrice)
       /\ IsMakeGuess =>
            \/ lastCall'.err = "Game not in guess stage" /\ StateKept
            \/ \A caller \in Callers, gameId \in GameIdArgs,
                  isHigher \in BOOLEAN :
                   (validGameId(gameId) /\ gameById[gameId].stage # Initialized)
                       => ~makeGuess(caller, gameId, isHigher)
       /\ IsSettleBet =>
            \/ lastCall'.err = "Game not ready for settlement" /\ StateKept
            \/ \A caller \in Callers, gameId \in GameIdArgs,
                  actualPrice \in ActualArgs :
                   (validGameId(gameId)
                    /\ gameById[gameId].stage # GuessSubmitted)
                       => ~settleBet(caller, gameId, actualPrice)]_vars

(* C3 amended: such a call always fails and changes nothing (first         *)
(* disjunction of each case); the error is the stage-conflict error        *)
(* whenever the call passes the checks made before the stage check, i.e.   *)
(* the caller's role and the arguments (second part of each case).         *)
C3_WrongStageRejected ==
    [][/\ IsInitializeGame =>
            /\ \/ Failed /\ StateKept
               \/ \A caller \in Callers, gameId \in GameIdArgs,
                     listingId \in ListingArgs,
                     displayedPrice \in DisplayedArgs :
                      (validGameId(gameId)
                       /\ gameById[gameId].stage # NotStarted)
                          => ~initializeGame(caller, gameId, listingId,
                                             displayedPrice)
            /\ \/ lastCall'.err = "Game already initialized"
               \/ \A gameId \in GameIdArgs, listingId \in ListingArgs \ {0},
                     displayedPrice \in DisplayedArgs \ {0} :
                      (validGameId(gameId)
                       /\ gameById[gameId].stage # NotStarted)
                          => ~initializeGame(Owner, gameId, listingId,
                                             displayedPrice)
       /\ IsMakeGuess =>
            /\ \/ Failed /\ StateKept
               \/ \A caller \in Callers, gameId \in GameIdArgs,
                     isHigher \in BOOLEAN :
                      (validGameId(gameId)
                       /\ gameById[gameId].stage # Initialized)
                          => ~makeGuess(caller, gameId, isHigher)
            /\ \/ lastCall'.err = "Game not in guess stage"
               \/ \A gameId \in GameIdArgs, isHigher \in BOOLEAN :
                      (validGameId(gameId)
                       /\ gameById[gameId].stage # Initialized)
                          => ~makeGuess(gameById[gameId].player, gameId,
                                        isHigher)
       /\ IsSettleBet =>
            /\ \/ Failed /\ StateKept
               \/ \A caller \in Callers, gameId \in GameIdArgs,
                     actualPrice \in ActualArgs :
                      (validGameId(gameId)
                       /\ gameById[gameId].stage # GuessSubmitted)
                          => ~settleBet(caller, gameId, actualPrice)
            /\ \/ lastCall'.err = "Game not ready for settlement"
               \/ \A gameId \in GameIdArgs, actualPrice \in ActualArgs \ {0} :
                      (validGameId(gameId)
                       /\ gameById[gameId].stage # GuessSubmitted)
                          => ~settleBet(Owner, gameId, actualPrice)]_vars

(* C3 witness: the player's guess on a game of theirs was rejected for     *)
(* the stage.                                                              *)
C3_Witness ==
    /\ lastCall.op = "makeGuess"
    /\ lastCall.err = "Game not in guess stage"

WinRule(l) ==
    \/ l.higherOrLower /\ l.actualPrice > l.displayedPrice
    \/ ~l.higherOrLower /\ l.actualPrice < l.displayedPrice
    \/ l.actualPrice = l.displayedPrice

(* C4: the won flag of every settled game equals the win rule applied to   *)
(* its guess, displayed price and actual price.                            *)
C4_WonFlag ==
    \A g \in GameIds :
        gameById[g].stage = Settled => (gameById[g].won <=> WinRule(gameById[g]))

(* C4 witness: two settled games, a "lower" guess that lost and a          *)
(* "higher" guess that won.                                                *)
C4_Witness ==
    \E g, h \in GameIds :
        /\ gameById[g].stage = Settled
        /\ ~gameById[g].higherOrLower
        /\ gameById[g].actualPrice > gameById[g].displayedPrice
        /\ gameById[h].stage = Settled
        /\ gameById[h].higherOrLower
        /\ gameById[h].actualPrice > gameById[h].displayedPrice

(* C5: a game settled at its displayed price is won and pays               *)
(* 2 x GAME_COST, whichever way the guess went.                            *)
C5_TieWins ==
    \A g \in GameIds :
        (gameById[g].stage = Settled
         /\ gameById[g].actualPrice = gameById[g].displayedPrice)
            => (gameById[g].won /\ gameById[g].payout = 2 * GAME_COST)

(* C5 witness: ties settled for a "higher" and for a "lower" guess. *)
C5_Witness ==
    \E g, h \in GameIds :
        /\ gameById[g].stage = Settled
        /\ gameById[g].actualPrice = gameById[g].displayedPrice
        /\ gameById[g].higherOrLower
        /\ gameById[h].stage = Settled
        /\ gameById[h].actualPrice = gameById[h].displayedPrice
        /\ ~gameById[h].higherOrLower

PayoutMatchesWon(l) ==
    /\ (l.payout > 0) <=> l.won
    /\ l.won => l.payout = 2 * GAME_COST
    /\ (~l.won \/ l.stage # Settled) => l.payout = 0

(* C6: for every game, in every copy, payout > 0 exactly when won, a won   *)
(* game pays exactly 2 x GAME_COST, and a lost or unsettled game has       *)
(* payout 0.                                                               *)
C6_PayoutIffWon ==
    /\ \A g \in GameIds : PayoutMatchesWon(gameById[g])
    /\ \A i \in 1..Len(allGames) : PayoutMatchesWon(allGames[i])
    /\ \A p \in Callers : \A i \in 1..Len(playerListings[p]) :
           PayoutMatchesWon(playerListings[p][i])

(* C6 witness: one game settled as won and one settled as lost. *)
C6_Witness ==
    \E g, h \in GameIds :
        /\ gameById[g].stage = Settled /\ gameById[g].won
        /\ gameById[h].stage = Settled /\ ~gameById[h].won

(* C7: once a game is Settled no step changes any field of it, in the      *)
(* ledger, in the flat list or in a player's list.                         *)
C7_SettledIsTerminal ==
    [][\/ GamesKept
       \/ /\ \A g \in GameIds :
                 gameById[g].stage = Settled => gameById'[g] = gameById[g]
          /\ \A i \in 1..Len(allGames) :
                 allGames[i].stage = Settled => allGames'[i] = allGames[i]
          /\ \A p \in Callers : \A i \in 1..Len(playerListings[p]) :
                 playerListings[p][i].stage = Settled
                     => playerListings'[p][i] = playerListings[p][i]]_vars

(* C7 witness: the only batch's game 3 is Settled and a further settleBet  *)
(* on it has just been rejected.                                           *)
C7_Witness ==
    /\ nextGameId = BATCH_SIZE + 1
    /\ gameById[3].stage = Settled
    /\ lastCall.op = "settleBet"
    /\ lastCall.err = "Game not ready for settlement"

(* C8: makeGuess on an existing game by anyone but its player fails with   *)
(* "Not your game" in every stage and changes neither the game's guess     *)
(* and stage nor any other state.                                          *)
C8_GuessOnlyByPlayer ==
    [][IsMakeGuess =>
        \/ lastCall'.err = "Not your game" /\ StateKept
        \/ \A caller \in Callers, gameId \in GameIdArgs, isHigher \in BOOLEAN :
               (validGameId(gameId) /\ gameById[gameId].player # caller)
                   => ~makeGuess(caller, gameId, isHigher)]_vars

(* C8 witness: a guess was rejected with "Not your game" while the only    *)
(* batch's game 3 was awaiting its guess.                                  *)
C8_Witness ==
    /\ nextGameId = BATCH_SIZE + 1
    /\ gameById[3].stage = Initialized
    /\ lastCall.op = "makeGuess"
    /\ lastCall.err = "Not your game"

(* C9 as stated: initializeGame fails without effect for every caller but  *)
(* the contract owner, and a successful one is never sent by the game's    *)
(* own player.                                                             *)
C9_Original ==
    [][IsInitializeGame =>
        \/ Failed /\ StateKept
        \/ \A caller \in Callers, gameId \in GameIdArgs,
              listingId \in ListingArgs, displayedPrice \in DisplayedArgs :
               (caller # Owner
                \/ (validGameId(gameId) /\ caller = gameById[gameId].player))
                   => ~initializeGame(caller, gameId, listingId,
                                      displayedPrice)]_vars

(* C9 amended: initializeGame fails without effect for every caller but    *)
(* the contract owner; a successful one is sent by the game's own player   *)
(* only when that player is the contract owner.                            *)
C9_InitializeOnlyByOwner ==
    [][IsInitializeGame =>
        \/ Failed /\ StateKept
        \/ \A caller \in Callers, gameId \in GameIdArgs,
              listingId \in ListingArgs, displayedPrice \in DisplayedArgs :
               (caller # Owner
                \/ (validGameId(gameId) /\ caller = gameById[gameId].player
                    /\ gameById[gameId].player # Owner))
                   => ~initializeGame(caller, gameId, listingId,
                                      displayedPrice)]_vars

(* C9 witness: an initializeGame was refused for its sender while game 3,  *)
(* owned by a player other than the contract owner, was NotStarted.        *)
C9_Witness ==
    /\ nextGameId = BATCH_SIZE + 1
    /\ gameById[3].stage = NotStarted
    /\ gameById[3].player # Owner
    /\ lastCall.op = "initializeGame"
    /\ lastCall.err = "OwnableUnauthorizedAccount"

(* C10: settleBet from any caller but the contract owner fails and leaves  *)
(* the games and every balance unchanged: a step of settleBet that did     *)
(* not fail, or changed something, was not sent by another caller.         *)
C10_SettleOnlyByOwner ==
    [][IsSettleBet =>
        \/ Failed /\ StateKept
        \/ \A caller \in Callers \ {Owner}, gameId \in GameIdArgs,
              actualPrice \in ActualArgs :
               ~settleBet(caller, gameId, actualPrice)]_vars

(* C10 witness: a settleBet was refused for its sender while game 3,       *)
(* owned by a player other than the contract owner, awaited settlement.    *)
C10_Witness ==
    /\ nextGameId = BATCH_SIZE + 1
    /\ gameById[3].stage = GuessSubmitted
    /\ gameById[3].player # Owner
    /\ lastCall.op = "settleBet"
    /\ lastCall.err = "OwnableUnauthorizedAccount"

AwaitsSettlement(l) ==
    /\ l.stage = GuessSubmitted
    /\ l.actualPrice = 0
    /\ ~l.won
    /\ l.payout = 0

WonGames(p) ==
    {g \in GameIds : /\ gameById[g].player = p
                     /\ gameById[g].stage = Settled
                     /\ gameById[g].won}

(* C11: a settleBet by the owner on a game awaiting settlement, with a     *)
(* winning price, while the ledger holds less than 2 x GAME_COST, fails    *)
(* and changes nothing: the game still awaits settlement with zero         *)
(* actualPrice and payout and won = false in the ledger, the flat list     *)
(* and the player's list; and in every state each player has been          *)
(* credited 2 x GAME_COST for every won Settled game of theirs.            *)
C11_PayoutFailureRollsBack ==
    /\ [][IsSettleBet =>
            \A gameId \in GameIdArgs, actualPrice \in ActualArgs \ {0} :
                (/\ validGameId(gameId)
                 /\ gameById[gameId].stage = GuessSubmitted
                 /\ playerWon(gameById[gameId].higherOrLower,
                              gameById[gameId].displayedPrice, actualPrice)
                 /\ balances[Ledger] < 2 * GAME_COST
                 /\ settleBet(Owner, gameId, actualPrice))
                    => /\ Failed
                       /\ StateKept
                       /\ AwaitsSettlement(gameById'[gameId])
                       /\ \A i \in 1..Len(allGames') :
                              allGames'[i].gameId = gameId
                                  => AwaitsSettlement(allGames'[i])
                       /\ \A p \in Callers :
                              \A i \in 1..Len(playerListings'[p]) :
                                  playerListings'[p][i].gameId = gameId
                                      => AwaitsSettlement(
                                             playerListings'[p][i])]_vars
    /\ [](\A p \in Callers :
              credited[p] >= 2 * GAME_COST * Cardinality(WonGames(p)))

(* C11 witness: the payout of a winning settlement has just failed and     *)
(* the game still awaits settlement.                                       *)
C11_Witness ==
    /\ lastCall.op = "settleBet"
    /\ lastCall.err = "ERC20InsufficientBalance"
    /\ \E g \in GameIds : validGameId(g) /\ AwaitsSettlement(gameById[g])

(* C12: in every state the total startGame has debited from players is     *)
(* GAME_COST x (number of games ever created), and the total settleBet     *)
(* has credited to each player is 2 x GAME_COST x (number of that          *)
(* player's games that are Settled with won = true).                       *)
C12_FundsPairedWithGames ==
    /\ debited = GAME_COST * Len(allGames)
    /\ debited = GAME_COST * (nextGameId - 1)
    /\ \A p \in Callers :
           credited[p] = 2 * GAME_COST * Cardinality(WonGames(p))

(* C12 witness: two batches were paid for, one game was settled as won     *)
(* and paid out, another was settled as lost.                              *)
C12_Witness ==
    /\ debited = 2 * BATCH_SIZE * GAME_COST
    /\ \E p \in Callers : credited[p] = 2 * GAME_COST
    /\ \E g \in GameIds : gameById[g].stage = Settled /\ ~gameById[g].won

(* C13: a successful startGame moves exactly BATCH_COST =                  *)
(* BATCH_SIZE x GAME_COST = 10 x 1000 tokens: the caller's balance         *)
(* decreases by it, the ledger's balance increases by it, the one          *)
(* transfer is the only amount pulled, and no other balance changes.       *)
C13_BatchCostMoved ==
    [][(IsStartGame /\ ~Failed) =>
        \A caller \in Callers :
            startGame(caller) =>
                /\ BATCH_COST = BATCH_SIZE * GAME_COST
                /\ BATCH_COST = 10 * 1000
                /\ balances'[caller] = balances[caller] - 10 * 1000
                /\ balances'[Ledger] = balances[Ledger] + 10 * 1000
                /\ debited' = debited + 10 * 1000
                /\ \A a \in Accounts \ {caller, Ledger} :
                       balances'[a] = balances[a]]_vars

(* C13 witness: a batch has just been paid for by a player who held        *)
(* exactly its price, next to a player who has not played.                 *)
C13_Witness ==
    /\ lastCall.op = "startGame"
    /\ lastCall.err = "ok"
    /\ balances[Ledger] = BATCH_SIZE * GAME_COST
    /\ \E p, q \in Callers \ {Owner} :
           balances[p] = 0 /\ balances[q] = BATCH_SIZE * GAME_COST

(* The elements of a list that carry game id g. *)
CopiesIn(arr, g) == {i \in 1..Len(arr) : arr[i].gameId = g}

InSync(g) ==
    /\ CopiesIn(allGames, g) # {}
    /\ \A i \in CopiesIn(allGames, g) : allGames[i] = gameById[g]
    /\ CopiesIn(playerListings[gameById[g].player], g) # {}
    /\ \A i \in CopiesIn(playerListings[gameById[g].player], g) :
           playerListings[gameById[g].player][i] = gameById[g]

(* C14: in every state, hence after every successful or failed call, for   *)
(* every game id g in 1..nextGameId-1 the record of g in allGames and the  *)
(* record of g in the list of g's player equal gameById[g] field for       *)
(* field.                                                                  *)
C14_CopiesInSync ==
    \A g \in 1..(nextGameId - 1) : InSync(g)

(* C14 witness: after two batches game 3 has been settled and game 13 has  *)
(* received its guess, and the most recent call failed.                    *)
C14_Witness ==
    /\ nextGameId = 2 * BATCH_SIZE + 1
    /\ gameById[3].stage = Settled
    /\ gameById[BATCH_SIZE + 3].stage = GuessSubmitted
    /\ lastCall.err # "ok"

RECURSIVE SumOfLengths(_)
SumOfLengths(players) ==
    IF players = {} THEN 0
    ELSE LET p == CHOOSE q \in players : TRUE
         IN  Len(getPlayerListings(p)) + SumOfLengths(players \ {p})

(* C15: in every state each game id in 1..nextGameId-1 occurs exactly once *)
(* in allGames and exactly once in the list of exactly one player, the     *)
(* game's player; getTotalGames() = nextGameId - 1, and the lengths of     *)
(* all players' lists add up to getTotalGames().                           *)
C15_EachGameOnce ==
    /\ \A g \in 1..(nextGameId - 1) :
           /\ Cardinality(CopiesIn(allGames, g)) = 1
           /\ {p \in Callers : CopiesIn(getPlayerListings(p), g) # {}}
                  = {gameById[g].player}
           /\ Cardinality(CopiesIn(getPlayerListings(gameById[g].player), g))
                  = 1
    /\ getTotalGames = nextGameId - 1
    /\ SumOfLengths(Callers) = getTotalGames

(* C15 witness: two batches by two different players, ten games in the     *)
(* list of each.                                                           *)
C15_Witness ==
    /\ getTotalGames = 2 * BATCH_SIZE
    /\ \E p, q \in Callers :
           /\ p # q
           /\ Len(getPlayerListings(p)) = BATCH_SIZE
           /\ Len(getPlayerListings(q)) = BATCH_SIZE

(* C16: in every step nextGameId does not decrease, the gameId field of    *)
(* every existing record (ledger, flat list, players' lists) is kept, and  *)
(* every record the step creates carries an id strictly greater than the   *)
(* id of every record created before it, in earlier batches and earlier    *)
(* in the same batch, whoever the players are.                             *)
C16_IdsAssignedOnce ==
    [][/\ nextGameId' >= nextGameId
       /\ \/ GamesKept
          \/ /\ \A g \in 1..(nextGameId - 1) :
                    /\ gameById[g].gameId = g
                    /\ gameById'[g].gameId = g
             /\ Len(allGames') >= Len(allGames)
             /\ \A i \in 1..Len(allGames) :
                    allGames'[i].gameId = allGames[i].gameId
             /\ \A p \in Callers :
                    /\ Len(playerListings'[p]) >= Len(playerListings[p])
                    /\ \A i \in 1..Len(playerListings[p]) :
                           playerListings'[p][i].gameId
                               = playerListings[p][i].gameId
             /\ \A j \in (Len(allGames) + 1)..Len(allGames') :
                    /\ allGames'[j].gameId >= nextGameId
                    /\ gameById'[allGames'[j].gameId].gameId
                           = allGames'[j].gameId
                    /\ \A i \in 1..(j - 1) :
                           allGames'[j].gameId > allGames'[i].gameId]_vars

(* C16 witness: a second batch was created by another player after game 3  *)
(* of the first batch had been settled; its first id follows the last id   *)
(* of the first batch.                                                     *)
C16_Witness ==
    /\ Len(allGames) = 2 * BATCH_SIZE
    /\ allGames[BATCH_SIZE].player # allGames[BATCH_SIZE + 1].player
    /\ allGames[BATCH_SIZE].gameId = BATCH_SIZE
    /\ allGames[BATCH_SIZE + 1].gameId = BATCH_SIZE + 1
    /\ allGames[3].stage = Settled
    /\ allGames[BATCH_SIZE + 3].timestamp > allGames[3].timestamp

ListingMatchesStage(l) ==
    IF l.stage = NotStarted
    THEN l.displayedPrice = 0 /\ l.listingId = 0
    ELSE l.displayedPrice > 0 /\ l.listingId # 0

(* The step changes displayedPrice or listingId of record l (l2 after the  *)
(* step) only while taking it from NotStarted to Initialized.              *)
ListingSetOnInitialize(l, l2) ==
    (l2.displayedPrice # l.displayedPrice \/ l2.listingId # l.listingId)
        => (l.stage = NotStarted /\ l2.stage = Initialized)

(* C17: in every state a NotStarted game has displayedPrice = 0 and        *)
(* listingId = 0 and a game in any later stage has displayedPrice > 0 and  *)
(* a non-zero listingId, in every copy; and a step changes the             *)
(* displayedPrice or listingId of a game only while taking it from         *)
(* NotStarted to Initialized, so they never change afterwards.             *)
C17_ListingSetOnce ==
    /\ [](/\ \A g \in GameIds : ListingMatchesStage(gameById[g])
          /\ \A i \in 1..Len(allGames) : ListingMatchesStage(allGames[i])
          /\ \A p \in Callers : \A i \in 1..Len(playerListings[p]) :
                 ListingMatchesStage(playerListings[p][i]))
    /\ [][\/ GamesKept
           \/ /\ \A g \in GameIds :
                     ListingSetOnInitialize(gameById[g], gameById'[g])
              /\ \A i \in 1..Len(allGames) :
                     ListingSetOnInitialize(allGames[i], allGames'[i])
              /\ \A p \in Callers : \A i \in 1..Len(playerListings[p]) :
                     ListingSetOnInitialize(playerListings[p][i],
                                            playerListings'[p][i])]_vars

(* C17 witness: game 3 has been initialized with listing 7 at price        *)
(* 500000 and settled since, while game 4 of the same batch is still       *)
(* NotStarted with zero price and listing.                                 *)
C17_Witness ==
    /\ gameById[3].stage = Settled
    /\ gameById[3].displayedPrice = 500000
    /\ gameById[3].listingId = 7
    /\ validGameId(4)
    /\ gameById[4].stage = NotStarted
    /\ gameById[4].displayedPrice = 0

OutcomeMatchesStage(l) ==
    IF l.stage = Settled
    THEN l.actualPrice > 0
    ELSE l.actualPrice = 0 /\ l.payout = 0 /\ ~l.won

(* The step changes actualPrice or payout of record l (l2 after the step)  *)
(* only while taking it from GuessSubmitted to Settled.                    *)
OutcomeSetOnSettle(l, l2) ==
    (l2.actualPrice # l.actualPrice \/ l2.payout # l.payout)
        => (l.stage = GuessSubmitted /\ l2.stage = Settled)

(* C18: in every state a game that is not Settled has actualPrice = 0,     *)
(* payout = 0 and won = false and a Settled game has actualPrice > 0, in   *)
(* every copy; and a step changes the actualPrice or payout of a game      *)
(* only while taking it from GuessSubmitted to Settled.                    *)
C18_OutcomeSetOnce ==
    /\ [](/\ \A g \in GameIds : OutcomeMatchesStage(gameById[g])
          /\ \A i \in 1..Len(allGames) : OutcomeMatchesStage(allGames[i])
          /\ \A p \in Callers : \A i \in 1..Len(playerListings[p]) :
                 OutcomeMatchesStage(playerListings[p][i]))
    /\ [][\/ GamesKept
           \/ /\ \A g \in GameIds :
                     OutcomeSetOnSettle(gameById[g], gameById'[g])
              /\ \A i \in 1..Len(allGames) :
                     OutcomeSetOnSettle(allGames[i], allGames'[i])
              /\ \A p \in Callers : \A i \in 1..Len(playerListings[p]) :
                     OutcomeSetOnSettle(playerListings[p][i],
                                        playerListings'[p][i])]_vars

(* C18 witness: game 3 was settled as won at 600000 and paid, game 13 was  *)
(* settled as lost at 400000, and a settleBet with actualPrice 0 has just  *)
(* been rejected.                                                          *)
C18_Witness ==
    /\ gameById[3].stage = Settled
    /\ gameById[3].actualPrice = 600000
    /\ gameById[3].payout = 2 * GAME_COST
    /\ gameById[BATCH_SIZE + 3].stage = Settled
    /\ gameById[BATCH_SIZE + 3].actualPrice = 400000
    /\ gameById[BATCH_SIZE + 3].payout = 0
    /\ lastCall.err = "Actual price must be > 0"

(* C19: the games a startGame creates carry its caller as player in the    *)
(* ledger, the flat list and the caller's list, and no step changes the    *)
(* player field of an existing record in any of the three.                 *)
C19_PlayerImmutable ==
    [][/\ (IsStartGame /\ ~Failed) =>
            \A caller \in Callers :
                startGame(caller) =>
                    /\ \A g \in nextGameId..(nextGameId' - 1) :
                           gameById'[g].player = caller
                    /\ \A i \in (Len(allGames) + 1)..Len(allGames') :
                           allGames'[i].player = caller
                    /\ \A p \in Callers :
                           \A i \in (Len(playerListings[p]) + 1)
                                        ..Len(playerListings'[p]) :
                               /\ p = caller
                               /\ playerListings'[p][i].player = caller
       /\ \/ GamesKept
          \/ /\ \A g \in 1..(nextGameId - 1) :
                    gameById'[g].player = gameById[g].player
             /\ \A i \in 1..Len(allGames) :
                    allGames'[i].player = allGames[i].player
             /\ \A p \in Callers : \A i \in 1..Len(playerListings[p]) :
                    playerListings'[p][i].player
                        = playerListings[p][i].player]_vars

(* C19 witness: game 3 is still its creator's after it has been settled    *)
(* and paid, and game 13, created by the contract owner, is still the      *)
(* owner's after its initialization and guess.                             *)
C19_Witness ==
    /\ gameById[3].player \in Callers \ {Owner}
    /\ allGames[3].player = gameById[3].player
    /\ gameById[3].stage = Settled
    /\ credited[gameById[3].player] > 0
    /\ gameById[BATCH_SIZE + 3].player = Owner
    /\ gameById[BATCH_SIZE + 3].stage = GuessSubmitted

IsGetGame == lastCall'.op = "getGame"

NoSuchGame(gameId) == gameId = 0 \/ gameId >= nextGameId

(* C20: initializeGame with gameId = 0 or gameId >= nextGameId, with       *)
(* listingId = 0 or with displayedPrice = 0, makeGuess and getGame with    *)
(* gameId = 0 or gameId >= nextGameId, and settleBet with such an id or    *)
(* with actualPrice = 0 fail, whoever calls, and leave nextGameId, the     *)
(* three game stores and every balance as they were.                       *)
C20_InvalidArgsRejected ==
    [][/\ IsInitializeGame =>
            \/ Failed /\ StateKept
            \/ \A caller \in Callers, gameId \in GameIdArgs,
                  listingId \in ListingArgs, displayedPrice \in DisplayedArgs :
                   (NoSuchGame(gameId) \/ listingId = 0 \/ displayedPrice = 0)
                       => ~initializeGame(caller, gameId, listingId,
                                          displayedPrice)
       /\ IsMakeGuess =>
            \/ Failed /\ StateKept
            \/ \A caller \in Callers, gameId \in GameIdArgs,
                  isHigher \in BOOLEAN :
                   NoSuchGame(gameId) => ~makeGuess(caller, gameId, isHigher)
       /\ IsGetGame =>
            \/ Failed /\ StateKept
            \/ \A gameId \in GameIdArgs :
                   NoSuchGame(gameId) => ~getGame(gameId)
       /\ IsSettleBet =>
            \/ Failed /\ StateKept
            \/ \A caller \in Callers, gameId \in GameIdArgs,
                  actualPrice \in ActualArgs :
                   (NoSuchGame(gameId) \/ actualPrice = 0)
                       => ~settleBet(caller, gameId, actualPrice)]_vars

(* C20 witness: with ten games created and game 3 initialized, a getGame   *)
(* has just been rejected for its id (0, 13 or the unassigned 11).         *)
C20_Witness ==
    /\ nextGameId = BATCH_SIZE + 1
    /\ gameById[3].stage = Initialized
    /\ lastCall.op = "getGame"
    /\ lastCall.err = "Invalid game ID"

(* ---------------------------- racing calls ---------------------------- *)
(* Transactions are serialized by the chain, so of two calls sent at the   *)
(* same time one runs in the state the other has left.  Advanced(g) says   *)
(* that the step has moved game g to its next stage; a primed error is     *)
(* the error the call meets after that step.                               *)
Advanced(g) == validGameId(g) /\ gameById'[g].stage # gameById[g].stage

(* C21 as stated: once one call has advanced a game, the same call on the  *)
(* same game from any caller meets the wrong-stage error.                  *)
C21_Original ==
    [][/\ (IsInitializeGame /\ ~Failed) =>
            \A caller \in Callers, gameId \in GameIdArgs,
               listingId \in ListingArgs, displayedPrice \in DisplayedArgs :
                Advanced(gameId) =>
                    initializeGameError(caller, gameId, listingId,
                                        displayedPrice)'
                        = "Game already initialized"
       /\ (IsMakeGuess /\ ~Failed) =>
            \A caller \in Callers, gameId \in GameIdArgs :
                Advanced(gameId) =>
                    makeGuessError(caller, gameId)' = "Game not in guess stage"
       /\ (IsSettleBet /\ ~Failed) =>
            \A caller \in Callers, gameId \in GameIdArgs,
               actualPrice \in ActualArgs :
                Advanced(gameId) =>
                    settleBetError(caller, gameId, actualPrice)'
                        = "Game not ready for settlement"]_vars

(* The error a racing call meets after the game has advanced: the          *)
(* wrong-stage error if it passed the checks made before the stage check   *)
(* (it would have succeeded, or failed only at the payout), otherwise the  *)
(* error it would have met anyway.                                         *)
LoserError(before, stageError) ==
    IF before \in {"ok", "ERC20InsufficientBalance"} THEN stageError
    ELSE before

(* C21 amended: once one call has advanced a game, the same call on the    *)
(* same game fails for every caller and every argument, with the           *)
(* wrong-stage error when the caller and the arguments pass the checks     *)
(* made before the stage check and with the error of the first failing     *)
(* check otherwise; a failed call changes no game and no balance; and a    *)
(* player is credited only in the step that takes a game of theirs from    *)
(* GuessSubmitted to Settled, by 2 x GAME_COST, so no game is paid twice.  *)
C21_OneAdvanceWins ==
    [][/\ (IsInitializeGame /\ ~Failed) =>
            \A caller \in Callers, gameId \in GameIdArgs,
               listingId \in ListingArgs, displayedPrice \in DisplayedArgs :
                Advanced(gameId) =>
                    initializeGameError(caller, gameId, listingId,
                                        displayedPrice)'
                        = LoserError(initializeGameError(caller, gameId,
                                         listingId, displayedPrice),
                                     "Game already initialized")
       /\ (IsMakeGuess /\ ~Failed) =>
            \A caller \in Callers, gameId \in GameIdArgs :
                Advanced(gameId) =>
                    makeGuessError(caller, gameId)'
                        = LoserError(makeGuessError(caller, gameId),
                                     "Game not in guess stage")
       /\ (IsSettleBet /\ ~Failed) =>
            \A caller \in Callers, gameId \in GameIdArgs,
               actualPrice \in ActualArgs :
                Advanced(gameId) =>
                    settleBetError(caller, gameId, actualPrice)'
                        = LoserError(settleBetError(caller, gameId,
                                                    actualPrice),
                                     "Game not ready for settlement")
       /\ ((IsInitializeGame \/ IsMakeGuess \/ IsSettleBet) /\ Failed)
             => StateKept
       /\ \A p \in Callers :
              credited'[p] # credited[p] =>
                  /\ credited'[p] = credited[p] + 2 * GAME_COST
                  /\ Cardinality({g \in GameIds :
                         /\ gameById[g].player = p
                         /\ gameById[g].stage = GuessSubmitted
                         /\ gameById'[g].stage = Settled
                         /\ gameById'[g].won}) = 1]_vars

(* C21 witness: game 3 was settled as won, its player was paid once, and   *)
(* a second settleBet on it has just met the wrong-stage error.            *)
C21_Witness ==
    /\ gameById[3].stage = Settled
    /\ gameById[3].won
    /\ gameById[3].player # Owner
    /\ credited[gameById[3].player] = 2 * GAME_COST
    /\ lastCall.op = "settleBet"
    /\ lastCall.err = "Game not ready for settlement"

RangeOf(b) == b.startGameId..b.endGameId

(* C22: the id ranges returned to startGame callers are pairwise           *)
(* disjoint, each is a contiguous range of BATCH_SIZE = 10 ids, every      *)
(* game of a range belongs to the caller the range was returned to, and    *)
(* the range a call returns is the one it has logged for its caller.       *)
C22_RangesDisjoint ==
    /\ [](\A i \in 1..Len(batches) :
              /\ batches[i].startGameId >= 1
              /\ batches[i].endGameId = batches[i].startGameId + 10 - 1
              /\ \A g \in RangeOf(batches[i]) :
                     /\ gameById[g].gameId = g
                     /\ gameById[g].player = batches[i].player
              /\ \A j \in 1..Len(batches) :
                     j # i => RangeOf(batches[i]) \cap RangeOf(batches[j]) = {})
    /\ [][(IsStartGame /\ ~Failed) =>
            /\ Len(batches') = Len(batches) + 1
            /\ SubSeq(batches', 1, Len(batches)) = batches
            /\ lastCall'.ret = <<batches'[Len(batches')].startGameId,
                                 batches'[Len(batches')].endGameId>>
            /\ \A caller \in Callers :
                   startGame(caller)
                       => batches'[Len(batches')].player = caller]_vars

(* C22 witness: two different players have each received a range.          *)
C22_Witness ==
    /\ Len(batches) = 2
    /\ batches[1].player # batches[2].player
    /\ lastCall.op = "startGame"
    /\ lastCall.ret = <<batches[2].startGameId, batches[2].endGameId>>

(* C23: the steps of the scenario have the effects it lists.  A batch      *)
(* created by player P debits P 10 x GAME_COST and leaves its 10 games     *)
(* NotStarted; the owner's initializeGame of a NotStarted game 3 at        *)
(* displayedPrice 500000 makes it Initialized; P's guess "higher" on it    *)
(* makes it GuessSubmitted; the owner's settleBet at 600000, the ledger    *)
(* holding the payout, sets won, payout = 2 x GAME_COST and raises P's     *)
(* balance by exactly the payout; and a settleBet of a "lower" guess at    *)
(* the displayed price sets won.                                           *)
C23_Scenario ==
    [][/\ (IsStartGame /\ ~Failed) =>
            \A P \in Callers :
                startGame(P) =>
                    /\ balances'[P] = balances[P] - 10 * GAME_COST
                    /\ \A g \in nextGameId..(nextGameId + 9) :
                           /\ gameById'[g].stage = NotStarted
                           /\ gameById'[g].player = P
       /\ IsInitializeGame =>
            \A listingId \in ListingArgs \ {0} :
                (/\ validGameId(3)
                 /\ gameById[3].stage = NotStarted
                 /\ initializeGame(Owner, 3, listingId, 500000))
                    => /\ ~Failed
                       /\ gameById'[3].stage = Initialized
                       /\ gameById'[3].displayedPrice = 500000
       /\ IsMakeGuess =>
            ((/\ validGameId(3)
              /\ gameById[3].stage = Initialized
              /\ makeGuess(gameById[3].player, 3, TRUE))
                 => /\ ~Failed
                    /\ gameById'[3].stage = GuessSubmitted
                    /\ gameById'[3].higherOrLower)
       /\ IsSettleBet =>
            \A gameId \in GameIdArgs, actualPrice \in ActualArgs \ {0} :
                (/\ validGameId(gameId)
                 /\ gameById[gameId].stage = GuessSubmitted
                 /\ balances[Ledger] >= 2 * GAME_COST
                 /\ \/ /\ gameById[gameId].higherOrLower
                       /\ gameById[gameId].displayedPrice = 500000
                       /\ actualPrice = 600000
                    \/ /\ ~gameById[gameId].higherOrLower
                       /\ actualPrice = gameById[gameId].displayedPrice
                 /\ settleBet(Owner, gameId, actualPrice))
                    => /\ ~Failed
                       /\ gameById'[gameId].stage = Settled
                       /\ gameById'[gameId].won
                       /\ gameById'[gameId].payout = 2 * GAME_COST
                       /\ balances'[gameById[gameId].player]
                              = balances[gameById[gameId].player]
                                    + 2 * GAME_COST]_vars

(* C23 witness: the end of the scenario.  Game 3 of player P, displayed    *)
(* at 500000 and guessed higher, was settled at 600000 as won with         *)
(* payout 2 x GAME_COST, P holding the payout after having paid the        *)
(* batch; the other games of the batch are NotStarted; and game 13,        *)
(* guessed lower, was settled at its displayed price as won.               *)
C23_Witness ==
    /\ gameById[3].stage = Settled
    /\ gameById[3].higherOrLower
    /\ gameById[3].displayedPrice = 500000
    /\ gameById[3].actualPrice = 600000
    /\ gameById[3].won
    /\ gameById[3].payout = 2 * GAME_COST
    /\ gameById[3].player # Owner
    /\ balances[gameById[3].player] = 2 * GAME_COST
    /\ \A g \in 1..BATCH_SIZE : g # 3 => gameById[g].stage = NotStarted
    /\ gameById[BATCH_SIZE + 3].stage = Settled
    /\ ~gameById[BATCH_SIZE + 3].higherOrLower
    /\ gameById[BATCH_SIZE + 3].actualPrice
           = gameById[BATCH_SIZE + 3].displayedPrice
    /\ gameById[BATCH_SIZE + 3].won

(* C24 as stated, in the form a finite run decides: once the workflow has  *)
(* been handed the BatchGamesCreated log of a batch, it has sent an        *)
(* initializeGame for every game of that batch (which the operator then    *)
(* executes, so that the game leaves NotStarted).                          *)
C24_Original ==
    \A i \in 1..cre.cursor :
        \A g \in RangeOf(batches[i]) : g \in cre.sent

GamesOf(player) == {g \in 1..(nextGameId - 1) : gameById[g].player = player}

(* C29: getPlayerGamesByStage(player, stage) is the number of games in     *)
(* gameById whose owner is player and whose stage is stage; for every      *)
(* player the counts of the four stages add up to the number of games the  *)
(* player created.  The query is a view: it reads playerListings only.     *)
C29_StageCounts ==
    \A player \in Callers :
        /\ \A stage \in {NotStarted, Initialized, GuessSubmitted, Settled} :
               getPlayerGamesByStage(player, stage)
                   = Cardinality({g \in GamesOf(player) : gameById[g].stage = stage})
        /\ getPlayerGamesByStage(player, NotStarted)
               + getPlayerGamesByStage(player, Initialized)
               + getPlayerGamesByStage(player, GuessSubmitted)
               + getPlayerGamesByStage(player, Settled)
                   = Cardinality(GamesOf(player))
        /\ Cardinality(GamesOf(player))
               = 10 * Cardinality({i \in 1..Len(batches) : batches[i].player = player})

C29_Witness ==
    /\ getPlayerGamesByStage("alice", NotStarted) = 9
    /\ getPlayerGamesByStage("alice", Settled) = 1
    /\ getPlayerGamesByStage(Owner, NotStarted) = 9
    /\ getPlayerGamesByStage(Owner, GuessSubmitted) = 1

(* C32: withdrawFunds(amount) succeeds only for the contract owner and     *)
(* only when amount is at most the ledger's token balance; then exactly    *)
(* amount moves from the ledger to the owner and no game record changes;   *)
(* otherwise the call fails and the balances are unchanged.                *)
C32_WithdrawGuarded ==
    [][\A caller \in Callers, amount \in WithdrawArgs :
          withdrawFunds(caller, amount) =>
              IF caller = Owner /\ amount <= balances[Ledger]
              THEN /\ lastCall'.err = "ok"
                   /\ balances'[Ledger] = balances[Ledger] - amount
                   /\ balances'[Owner] = balances[Owner] + amount
                   /\ \A a \in Accounts \ {Ledger, Owner} : balances'[a] = balances[a]
                   /\ UNCHANGED <<nextGameId, playerListings, gameById, allGames>>
              ELSE /\ lastCall'.err # "ok"
                   /\ UNCHANGED <<balances, nextGameId, playerListings, gameById, allGames>>]_vars

C32_Witness ==
    /\ lastCall.op = "withdrawFunds"
    /\ lastCall.err = "ok"
    /\ balances[Owner] = 10000
    /\ balances[Ledger] = 0
    /\ nextGameId = 11

(* C33, as the claim states it: whenever some game is in stage             *)
(* GuessSubmitted the ledger holds at least 2 x GAME_COST, so a settleBet  *)
(* by the owner with an actual price above 0 on such a game succeeds.      *)
C33_Original ==
    \A g \in 1..(nextGameId - 1) :
        gameById[g].stage = GuessSubmitted =>
            /\ balances[Ledger] >= 2 * GAME_COST
            /\ \A actualPrice \in ActualArgs \ {0} :
                   settleBetError(Owner, g, actualPrice) = "ok"

(* The step is a committed initializeGame, makeGuess or settleBet. *)
PerGameStep == (IsInitializeGame \/ IsMakeGuess \/ IsSettleBet) /\ ~Failed

(* Every record but that of game g is the same after the step, in the      *)
(* three storage copies, and no list changes its length.                   *)
OthersKept(g) ==
    /\ \A h \in GameIds \ {g} : gameById'[h] = gameById[h]
    /\ Len(allGames') = Len(allGames)
    /\ \A i \in 1..Len(allGames) :
           allGames[i].gameId # g => allGames'[i] = allGames[i]
    /\ \A p \in Callers :
           /\ Len(playerListings'[p]) = Len(playerListings[p])
           /\ \A i \in 1..Len(playerListings[p]) :
                  playerListings[p][i].gameId # g
                      => playerListings'[p][i] = playerListings[p][i]

(* C34: a committed initializeGame, makeGuess or settleBet on game g       *)
(* leaves every other game's record unchanged in gameById, allGames and    *)
(* the players' lists, and leaves nextGameId and all list lengths          *)
(* unchanged; initializeGame and makeGuess leave every token balance       *)
(* unchanged; makeGuess changes only higherOrLower and stage of g, and     *)
(* initializeGame only listingId, displayedPrice and stage of g.           *)
C34_PerGameFrame ==
    [][PerGameStep =>
          \E g \in 1..(nextGameId - 1) :
              /\ gameById'[g].stage # gameById[g].stage
              /\ OthersKept(g)
              /\ nextGameId' = nextGameId
              /\ IsInitializeGame \/ IsMakeGuess => balances' = balances
              /\ IsMakeGuess =>
                    gameById'[g] = [gameById[g] EXCEPT
                                       !.higherOrLower = gameById'[g].higherOrLower,
                                       !.stage = GuessSubmitted]
              /\ IsInitializeGame =>
                    gameById'[g] = [gameById[g] EXCEPT
                                       !.listingId = gameById'[g].listingId,
                                       !.displayedPrice = gameById'[g].displayedPrice,
                                       !.stage = Initialized]]_vars

(* C34 witness: game 13 of the second batch has received its guess while   *)
(* game 3 is settled and the other games of both batches are untouched.    *)
C34_Witness ==
    /\ lastCall = Call("makeGuess", "ok", NoRet)
    /\ nextGameId = 21
    /\ gameById[13].stage = GuessSubmitted
    /\ gameById[3].stage = Settled
    /\ gameById[12].stage = NotStarted
    /\ gameById[14].stage = NotStarted

EventOrder == <<"GameInitialized", "GuessMade", "BetSettled">>

(* C35: for every game id the ledger emits GameInitialized, GuessMade and  *)
(* BetSettled at most once each and in that order, and only after the      *)
(* BatchGamesCreated event whose id range contains the game; an event is   *)
(* emitted exactly when the corresponding transition commits, and won and  *)
(* payout in BetSettled are the values stored in the game record.          *)
C35_EventsFollowStages ==
    /\ [](\A g \in GameIds :
              /\ Len(gameEvents[g]) = gameById[g].stage
              /\ \A k \in 1..Len(gameEvents[g]) :
                     /\ gameEvents[g][k].event = EventOrder[k]
                     /\ gameEvents[g][k].gameId = g
              /\ gameEvents[g] # <<>> =>
                     \E i \in 1..Len(batches) : g \in RangeOf(batches[i])
              /\ Len(gameEvents[g]) = 3 =>
                     /\ gameEvents[g][3].won = gameById[g].won
                     /\ gameEvents[g][3].payout = gameById[g].payout)
    /\ [][\A g \in GameIds :
              IF gameById'[g].stage # gameById[g].stage
              THEN /\ ~Failed
                   /\ Len(gameEvents'[g]) = Len(gameEvents[g]) + 1
                   /\ SubSeq(gameEvents'[g], 1, Len(gameEvents[g])) = gameEvents[g]
                   /\ gameEvents'[g][Len(gameEvents'[g])].event
                          = EventOrder[gameById'[g].stage]
              ELSE gameEvents'[g] = gameEvents[g]]_vars

(* C35 witness: game 3 went through all three transitions and was lost,    *)
(* game 13 has its first two events.                                       *)
C35_Witness ==
    /\ Len(gameEvents[3]) = 3
    /\ gameEvents[3][3].event = "BetSettled"
    /\ gameEvents[3][3].won = FALSE
    /\ gameEvents[3][3].payout = 0
    /\ Len(gameEvents[13]) = 2
    /\ gameEvents[13][2].event = "GuessMade"

(* ======================= properties of the API ======================== *)
Responded == api.pc = "responded"

(* C25, as the claim states it: every answer of GET /api/random-listing is *)
(* either a success body with success, city, listing and contractData      *)
(* holding listingId and displayedPrice, or status 500 with a body of the  *)
(* shape {success: false, error}.                                          *)
C25_Original ==
    Responded =>
        \/ /\ api.response.status = 200
           /\ {"success", "city", "listing", "contractData"}
                  \subseteq DOMAIN api.response.body
           /\ {"listingId", "displayedPrice"}
                  \subseteq DOMAIN api.response.body.contractData
        \/ /\ api.response.status = 500
           /\ {"success", "error"} \subseteq DOMAIN api.response.body
           /\ api.response.body.success = FALSE

SourceEmpty ==
    /\ api.zillow.kind = "answer"
    /\ \/ ~api.zillow.ok
       \/ "props" \notin DOMAIN api.zillow.data
       \/ api.zillow.data.props = <<>>

OnlyRandomFailed ==
    /\ hasListings(api.zillow)
    /\ "zpid" \in DOMAIN api.zillow.data.props[api.zillow.pick]
    /\ api.mathjs.kind = "throws" \/ ~api.mathjs.ok

UpstreamPrice(l) == IF "price" \in DOMAIN l THEN l.price ELSE 0

(* C26: when the Listing Source answers a non-success status or no         *)
(* listing, fetchRandomListing yields a failure result without listing or  *)
(* contractData; when only the random service fails the request succeeds,  *)
(* the local random value decides the adjustment of the displayed price    *)
(* and nothing else: id, address and actual price are the upstream ones.   *)
C26_FailureAndFallback ==
    Responded =>
        /\ SourceEmpty =>
              /\ ~api.listing.success
              /\ DOMAIN api.listing = {"success", "error"}
              /\ api.response.status = 500
              /\ {"listing", "contractData"} \cap DOMAIN api.response.body = {}
        /\ OnlyRandomFailed =>
              LET l == api.zillow.data.props[api.zillow.pick]
                  c == api.listing.contractData
              IN  /\ api.listing.success
                  /\ api.response.status = 200
                  /\ api.listing.listing.zpid = l.zpid
                  /\ api.listing.listing.address = l.address
                  /\ api.listing.listing.price = UpstreamPrice(l)
                  /\ c.actualPrice = UpstreamPrice(l)
                  /\ Len(c.listingId) = 66
                  /\ SubSeq(c.listingId, 1, 2) = <<"0", "x">>
                  /\ \E d \in 1..64 :
                         /\ SubSeq(c.listingId, 67 - d, 66) = toString(l.zpid)
                         /\ \A k \in 3..(66 - d) : c.listingId[k] = "0"
                  /\ c.displayedPrice.nan = FALSE
                  /\ 100000 * c.displayedPrice.v - 50000
                        <= UpstreamPrice(l) * (100000 + 3 * api.random - 15000)
                  /\ UpstreamPrice(l) * (100000 + 3 * api.random - 15000)
                        < 100000 * c.displayedPrice.v + 50000

C26_Witness ==
    /\ Responded
    /\ OnlyRandomFailed
    /\ api.random = 9999
    /\ api.listing.success
    /\ api.listing.contractData.actualPrice = 2000
    /\ api.listing.contractData.displayedPrice = Num(2300)

(* C27, as the claim states it: the adjustment is a number between -15%    *)
(* and +15% for every integer 1..100 the random service returns, for any   *)
(* other response text and on the fallback path, so the displayed price of *)
(* a successful response is within 15% of the actual price.                *)
C27_Original ==
    Responded /\ hasListings(api.zillow) =>
        /\ "value" \in DOMAIN api.adjustment
        /\ ~api.adjustment.value.nan
        /\ -15000 <= api.adjustment.value.v
        /\ api.adjustment.value.v <= 15000
        /\ api.listing.success =>
              LET c == api.listing.contractData
              IN  /\ ~c.displayedPrice.nan
                  /\ 85 * c.actualPrice <= 100 * c.displayedPrice.v
                  /\ 100 * c.displayedPrice.v <= 115 * c.actualPrice

(* A 0x text of 64 hexadecimal digits that is not all zeros: a bytes32     *)
(* value that passes require(listingId != bytes32(0)).                     *)
NonZeroBytes32(t) ==
    /\ Len(t) = 66
    /\ SubSeq(t, 1, 2) = <<"0", "x">>
    /\ \A k \in 3..66 : IsDigit(t[k]) \/ t[k] \in {"a", "b", "c", "d", "e", "f"}
    /\ \E k \in 3..66 : t[k] # "0"

(* C36, as the claim states it: the contractData of every successful       *)
(* response has a non-zero 32-byte listingId and an integer displayedPrice *)
(* above 0, so initializeGame's checks 'Invalid listing ID' and 'Displayed *)
(* price must be > 0' pass, also when the upstream listing has a missing   *)
(* or zero price.                                                          *)
C36_Original ==
    Responded /\ api.response.status = 200 =>
        /\ NonZeroBytes32(api.response.body.contractData.listingId)
        /\ ~api.response.body.contractData.displayedPrice.null
        /\ api.response.body.contractData.displayedPrice.v > 0

(* ====================== properties of the token ======================= *)
HoboDeployed == hobo.pc = "deployed"

HoboSum == hobo.balanceOf[Deployer] + hobo.balanceOf["mallory"]

(* C28: the total supply of HOBO, which is the sum of the balances, never  *)
(* exceeds MAX_SUPPLY; a construction with initialSupply above MAX_SUPPLY  *)
(* fails; a mint that would exceed MAX_SUPPLY fails and changes no         *)
(* balance; mint and burn succeed only when the token owner calls them.    *)
C28_SupplyCapped ==
    /\ [](/\ HoboDeployed => hobo.totalSupply <= 100000000
                             /\ hobo.totalSupply = HoboSum
          /\ hobo.pc = "reverted" <=> (hobo.pc # "idle" /\ hobo.initialSupply > 100000000))
    /\ [][\A caller \in HoboCallers, a \in HoboHolders, amount \in HoboAmountArgs :
            /\ mint(caller, a, amount) /\ hobo.totalSupply + amount > 100000000
                  => /\ hobo'.err # "ok"
                     /\ hobo'.balanceOf = hobo.balanceOf
                     /\ hobo'.totalSupply = hobo.totalSupply
            /\ (mint(caller, a, amount) \/ burn(caller, a, amount))
                  /\ caller # hobo.owner
                  => /\ hobo'.err = "OwnableUnauthorizedAccount"
                     /\ hobo'.balanceOf = hobo.balanceOf
                     /\ hobo'.totalSupply = hobo.totalSupply]_vars

C28_Witness ==
    /\ HoboDeployed
    /\ hobo.owner = "mallory"
    /\ hobo.totalSupply = 100000000
    /\ hobo.op = "mint"
    /\ hobo.err = "Minting would exceed max supply"

(* ================== properties of the install script ================== *)
Successes == {k \in 1..5 : install.status[k] = 0}

FirstSuccess == CHOOSE k \in Successes : \A j \in Successes : k <= j

(* C30: the script makes at most 5 attempts and stops at the first         *)
(* success with exit status 0; it sleeps between consecutive failed        *)
(* attempts 10, 20, 40 and 80 seconds, not after the last attempt, and     *)
(* exits with status 1 after the fifth failure; it always terminates.      *)
C30_BoundedRetries ==
    /\ [](/\ install.attempts <= 5
          /\ Len(install.slept) <= 4
          /\ install.slept = SubSeq(<<10, 20, 40, 80>>, 1, Len(install.slept))
          /\ Len(install.slept) <= install.attempts
          /\ \A k \in 1..(install.attempts - 1) : install.status[k] # 0
          /\ install.pc = "exited" =>
                IF Successes # {}
                THEN /\ install.exit = 0
                     /\ install.attempts = FirstSuccess
                     /\ Len(install.slept) = FirstSuccess - 1
                ELSE /\ install.exit = 1
                     /\ install.attempts = 5
                     /\ install.slept = <<10, 20, 40, 80>>)
    /\ <>(install.pc = "exited")

C30_Witness ==
    /\ install.pc = "exited"
    /\ install.exit = 0
    /\ install.attempts = 5
    /\ install.slept = <<10, 20, 40, 80>>

(* ==================== properties of the web client ==================== *)
(* C31, as the claim states it: play is sent only after a receipt for the  *)
(* approve transaction has been obtained.                                  *)
C31_Original == dapp.pc = "done" /\ dapp.playTx => dapp.receipt.found

WaitReturned == dapp.pc \in {"returned", "done"} \/ (dapp.pc = "threw" /\ dapp.approveTx)

(* C37: waitForTransactionReceipt issues at most 30 requests, returns the  *)
(* first receipt as soon as one is obtained, swallows a request error and  *)
(* polls on, and returns null without throwing when 30 requests brought    *)
(* no receipt; it always terminates.                                       *)
C37_PollingBounded ==
    /\ [](dapp.pc # "idle" =>
            /\ dapp.requests <= 30
            /\ dapp.attempts <= 30
            /\ dapp.pc = "request" => ~dapp.receipt.found /\ dapp.requests = dapp.attempts
            /\ dapp.pc = "sleep" => ~dapp.receipt.found /\ dapp.requests = dapp.attempts + 1
            /\ WaitReturned =>
                  IF dapp.receipt.found
                  THEN dapp.requests = dapp.attempts + 1
                  ELSE dapp.requests = 30 /\ dapp.attempts = 30)
    /\ [][/\ dapp.pc = "request" => dapp'.pc \in {"sleep", "returned"}
          /\ dapp.pc = "request" /\ dapp'.receipt.found => dapp'.pc = "returned"
          /\ dapp.pc = "sleep" /\ dapp.swallowed /\ dapp.attempts + 1 < 30
                => dapp'.pc = "request"
          /\ dapp.pc = "sleep" => dapp'.pc \in {"request", "returned"}]_vars
    /\ (dapp.pc = "request") ~> WaitReturned

C37_Witness ==
    /\ dapp.pc = "returned"
    /\ ~dapp.receipt.found
    /\ dapp.requests = 30
    /\ dapp.swallowed

====
